---- MODULE Spec2Model ----
(***************************************************************************)
(* gitv: the extraction pipeline (record.rs, gitimp.rs) and the streak     *)
(* aggregates of the SQL layer (executor.rs, query_functions.rs).          *)
(*                                                                         *)
(* The module holds several specifications over one set of variables:      *)
(*   SpecStreak  - ActiveLongest::calc_longest applied to bounded inputs   *)
(*   SpecAcc     - the streak accumulators: update_batch, merge_batch,     *)
(*                 evaluate                                                *)
(*   SpecCommits - GitImpl::commits: one task per date window inserting    *)
(*                 into the shared HashSet                                 *)
(*   SpecGit     - Git::git and its wrappers applied to the outcomes of   *)
(*                 a git process                                          *)
(*   SpecParser  - Parser and Author applied to bounded git output        *)
(*   SpecRange   - GitImpl::calc_range applied to bounded timestamps      *)
(*   SpecRender  - ChartRender's placeholder resolution (render.rs)       *)
(*   Spec        - CsvSerializer::serialize_records: orchestrator, repo    *)
(*                 tasks, their four subtasks, the bounded channel and the *)
(*                 sink (FairSpec adds the scheduler's fairness)           *)
(* A specification leaves the variables of the other parts at their idle   *)
(* values.                                                                 *)
(***************************************************************************)
EXTENDS Integers, Sequences, FiniteSets, Bags, TLC

VARIABLES
    \* ---- calc_longest applied to an input (SpecStreak)
    sData,      \* the slice handed to calc_longest
    sRatio,     \* its ratio argument
    sRet,       \* the returned (count, start, end), <<>> before the call
    \* ---- streak accumulators (SpecAcc)
    aVariant,   \* "executor" or "query_functions"
    aInput,     \* the rows of the datetime column the aggregate runs over
    aIndex,     \* ActiveLongestType of the aggregate as u8: 0 count, 1 start, 2 end
    aPool,      \* rows of the datetime column not yet handed to an accumulator
    aData,      \* aData[a]: TimeInputAccumulator.data of accumulator a
    aN,         \* aN[a]: TimeInputAccumulator.n of accumulator a
    aSeen,      \* aSeen[a]: bag of timestamps a received, by update or by merge
    aMerged,    \* partial accumulators whose state() the final one has merged
    aLastOp,    \* last call on the final accumulator: "new", "update", "merge"
    aOut,       \* result of evaluate() on the final accumulator, NoValue before
    \* ---- serialize_records (Spec, FairSpec) and GitImpl::commits (SpecCommits)
    db,         \* name of the database the run is given
    exited,     \* the process has called exit(1)
    faults,     \* failures of git or of file I/O the run may still meet
    orch,       \* serialize_records: pc, index of the handle it joins, tx held
    repoT,      \* repoT[r]: the task spawned for repo r: pc, handle it joins, index it logged
    counter,    \* the progress counter under its mutex
    sub,        \* sub[<<r, k>>]: subtask or worker k of repo r: pc, records to send, index
    cWin,       \* cWin[r]: the windows range_commits returned in commits()
    cPc,        \* cPc[r][w]: pc of the task of window w
    cSet,       \* cSet[r]: the HashSet<Commit> behind the mutex
    cOut,       \* cOut[r]: the Vec<Commit> commits() returned, NoVec before
    wq,         \* wq[<<r, i>>]: channel of hashes to worker i of repo r
    chan,       \* the record channel: records sent and not yet received
    rxAlive,    \* the Receiver of the record channel is not dropped
    sink,       \* pc of the sink task
    wtr,        \* wtr[f]: CsvWriter of file f: curr, records buffered, records in the file
    handed,     \* bag of the Commits handed to send_commit_records
    sent,       \* bag of the records whose send returned Ok
    \* ---- one function applied to an input (SpecGit, SpecParser, SpecRange, SpecRender)
    fArgs,      \* the function called and its arguments
    fRet        \* what it returned, Pending before the call

streakVars == <<sData, sRatio, sRet>>
accVars == <<aVariant, aIndex, aInput, aPool, aData, aN, aSeen, aMerged, aLastOp, aOut>>
pipeVars == <<db, exited, faults, orch, repoT, counter, sub, cWin, cPc, cSet, cOut, wq,
              chan, rxAlive, sink, wtr, handed, sent>>
fnVars == <<fArgs, fRet>>
vars == <<streakVars, accVars, pipeVars, fnVars>>

\* What the actions of one part leave alone.
notStreak == <<accVars, pipeVars, fnVars>>
notAcc == <<streakVars, pipeVars, fnVars>>
notPipe == <<streakVars, accVars, fnVars>>
notFn == <<streakVars, accVars, pipeVars>>

(***************************************************************************)
(* Bounds of the model.                                                    *)
(***************************************************************************)
MaxLen == 5        \* longest slice handed to calc_longest
MaxTs == 6         \* largest timestamp in such a slice
NegTs == 1         \* timestamps start at -NegTs
MaxRatio == 2      \* ratios 1..MaxRatio
NumParts == 2      \* partial accumulators feeding the final one
MaxBatch == 2      \* rows per update_batch call
BUFFER_SIZE == 1   \* capacity of the channels (record.rs:112 has 1000)
FLUSH_SIZE == 2    \* writes between two flushes of a CsvWriter (record.rs:392 has 500)
NumCpus == 2       \* num_cpus::get()
SectionalOver == 2 \* most hashes serialize_commits takes in one call (record.rs:212 has 5000)
MaxFaults == 1     \* failures of git or of file I/O in one run
MaxWindows == 3    \* most windows range_commits returns for a history of the model
MaxStdout == 3     \* most bytes a git process prints
MaxMappings == 2   \* most entries of create.author_mappings
MaxEmail == 4      \* most characters of an email
MaxLines == 3      \* most numstat lines of a commit handed to parse_commit
MaxExt == 3        \* most characters of an extension
MaxSpan == 7       \* longest range handed to calc_range, in half durations
MaxVar == 4        \* most characters of an arbitrary string handed to parse_variable
MaxInside == 5     \* most characters between "${" and "}" of a placeholder
MaxItems == 2      \* most elements of labels and of data
MaxWrites == 4     \* most records a writer takes in a run of writes
MaxClock == 3      \* latest reading of the clock, in seconds since the epoch
MaxEpoch == 4      \* latest unix timestamp handed to a function

(***************************************************************************)
(* Helpers.                                                                *)
(***************************************************************************)
\* Rust's integer division truncates toward zero.
TruncDiv(a, b) == IF a >= 0 THEN a \div b ELSE -((-a) \div b)

Max(a, b) == IF a >= b THEN a ELSE b

SetMax(S) == IF S = {} THEN 0 ELSE CHOOSE m \in S : \A x \in S : x <= m

SeqSum(s) ==
    LET RECURSIVE Go(_)
        Go(i) == IF i > Len(s) THEN 0 ELSE s[i] + Go(i + 1)
    IN Go(1)

\* Ascending sequences of length n over lo..hi.
RECURSIVE SortedSeqs(_, _, _)
SortedSeqs(n, lo, hi) ==
    IF n = 0 THEN {<<>>}
    ELSE UNION {{<<x>> \o t : t \in SortedSeqs(n - 1, x, hi)} : x \in lo..hi}

\* slice::sort_unstable on i64: the ascending arrangement of the elements.
Insert(x, s) ==
    LET k == Cardinality({i \in 1..Len(s) : s[i] <= x})
    IN SubSeq(s, 1, k) \o <<x>> \o SubSeq(s, k + 1, Len(s))
RECURSIVE sort_unstable(_)
sort_unstable(s) == IF s = <<>> THEN <<>> ELSE Insert(Head(s), sort_unstable(Tail(s)))

RECURSIVE Flatten(_)
Flatten(ss) == IF ss = <<>> THEN <<>> ELSE Head(ss) \o Flatten(Tail(ss))

SeqToBag(s) ==
    LET RECURSIVE Go(_)
        Go(i) == IF i > Len(s) THEN EmptyBag ELSE SetToBag({s[i]}) (+) Go(i + 1)
    IN Go(1)

(***************************************************************************)
(* ActiveLongest::calc_longest (executor.rs:610, query_functions.rs:523;   *)
(* the two bodies are the same text).                                      *)
(***************************************************************************)
\* One iteration of `for i in 0..data.len() - 1`; st holds the loop's
\* mutable locals, indices are 1-based here (l = 1 is the source's l = 0).
SweepStepNoAdd(data, ratio, st, i) ==
    LET k == TruncDiv(data[i + 1], ratio) - TruncDiv(data[i], ratio) IN
    IF k \in {0, 1}
    THEN [st EXCEPT !.r = i + 1, !.count = st.count + 1]
    ELSE [count |-> 1, l |-> i + 1, r |-> st.r,
          max   |-> IF st.count > st.max THEN st.count ELSE st.max,
          start |-> IF st.count > st.max THEN st.l ELSE st.start,
          end   |-> IF st.count > st.max THEN st.r ELSE st.end]

SweepStep(data, ratio, st, i) ==
    LET k == TruncDiv(data[i + 1], ratio) - TruncDiv(data[i], ratio) IN
    IF k \in {0, 1}
    THEN [st EXCEPT !.r = i + 1, !.count = st.count + k]
    ELSE [count |-> 1, l |-> i + 1, r |-> st.r,
          max   |-> IF st.count > st.max THEN st.count ELSE st.max,
          start |-> IF st.count > st.max THEN st.l ELSE st.start,
          end   |-> IF st.count > st.max THEN st.r ELSE st.end]

RECURSIVE Sweep(_, _, _, _)
Sweep(data, ratio, st, i) ==
    IF i > Len(data) - 1 THEN st
    ELSE Sweep(data, ratio, SweepStep(data, ratio, st, i), i + 1)

\* The choice after the loop.
SweepResultLater(data, st) ==
    IF st.count >= st.max
    THEN <<st.count, data[st.l], data[st.r]>>
    ELSE <<st.max, data[st.start], data[st.end]>>

SweepResult(data, st) ==
    IF st.count > st.max
    THEN <<st.count, data[st.l], data[st.r]>>
    ELSE <<st.max, data[st.start], data[st.end]>>

calc_longest(data, ratio) ==
    IF Len(data) = 0 THEN <<0, 0, 0>>
    ELSE IF Len(data) <= 1 THEN <<1, data[1], data[1]>>
    ELSE SweepResult(data,
            Sweep(data, ratio,
                  [count |-> 1, max |-> 0, l |-> 1, r |-> 1, start |-> 1, end |-> 1],
                  1))

(***************************************************************************)
(* SpecStreak: calc_longest on every ascending slice within the bounds.    *)
(***************************************************************************)
StreakIdle == sData = <<>> /\ sRatio = 1 /\ sRet = <<>>

StreakInputs == UNION {SortedSeqs(n, 0 - NegTs, MaxTs) : n \in 0..MaxLen}

StreakStart ==
    /\ sData \in StreakInputs
    /\ sRatio \in 1..MaxRatio
    /\ sRet = <<>>

CalcLongest ==
    /\ sRet = <<>>
    /\ sRet' = calc_longest(sData, sRatio)
    /\ UNCHANGED <<sData, sRatio, notStreak>>

(***************************************************************************)
(* Datetimes.  A datetime string is held as its fields; off is the offset  *)
(* from UTC in minutes.  chrono's parse_from_rfc3339 (executor.rs:551) and *)
(* parse_from_rfc2822 (query_functions.rs:421) read the same fields from   *)
(* the two notations, and timestamp() drops the fraction of a second.      *)
(***************************************************************************)
DAY == 86400

Dt(y, mo, d, h, mi, sec, off) ==
    [y |-> y, mo |-> mo, d |-> d, h |-> h, mi |-> mi, sec |-> sec, off |-> off]

\* Days since 1970-01-01 of a proleptic Gregorian date.
DaysFromCivil(y, m, d) ==
    LET yy  == IF m <= 2 THEN y - 1 ELSE y
        era == yy \div 400
        yoe == yy - era * 400
        mp  == IF m > 2 THEN m - 3 ELSE m + 9
        doy == (153 * mp + 2) \div 5 + d - 1
        doe == yoe * 365 + yoe \div 4 - yoe \div 100 + doy
    IN era * 146097 + doe - 719468

\* DateTime::timestamp of a parsed datetime.
Timestamp(dt) ==
    DaysFromCivil(dt.y, dt.mo, dt.d) * DAY
        + dt.h * 3600 + dt.mi * 60 + dt.sec - dt.off * 60

\* <<year, month, day>> of a count of days since 1970-01-01.
CivilFromDays(z) ==
    LET zz  == z + 719468
        era == zz \div 146097
        doe == zz - era * 146097
        yoe == (doe - doe \div 1460 + doe \div 36524 - doe \div 146096) \div 365
        doy == doe - (365 * yoe + yoe \div 4 - yoe \div 100)
        mp  == (5 * doy + 2) \div 153
        d   == doy - (153 * mp + 2) \div 5 + 1
        m   == IF mp < 10 THEN mp + 3 ELSE mp - 9
        y   == yoe + era * 400
    IN <<IF m <= 2 THEN y + 1 ELSE y, m, d>>

Pad2(n) == IF n < 10 THEN "0" \o ToString(n) ELSE ToString(n)

\* Utc.timestamp(ts, 0).format("%Y-%m-%d").to_string()
FormatYmd(ts) ==
    LET c == CivilFromDays(ts \div DAY)
    IN ToString(c[1]) \o "-" \o Pad2(c[2]) \o "-" \o Pad2(c[3])

\* The datetime column of tests::get_datetime_context (executor.rs:789),
\* followed by one more row that makes 2020-01-02..03 a second two-day run.
Rows ==
    << Dt(2021, 10, 12, 14, 20, 50, 480),
       Dt(2021, 10, 13,  8, 20, 50, 480),
       Dt(2020,  1,  2, 22, 20, 50, 420),
       Dt(2020,  3,  3, 11, 39, 50, 420),
       Dt(2020,  1,  3,  9,  0,  0, 420) >>

NumTestRows == 4

(***************************************************************************)
(* The streak accumulators.  Accumulator 0 is the final one, 1..NumParts   *)
(* are the partial ones whose state() it merges.                           *)
(***************************************************************************)
Final == 0
Parts == 1..NumParts
Accs == 0..NumParts

\* A ScalarValue; NoValue stands for evaluate() not called yet.
NoValue == [kind |-> "none", v |-> 0]
Int64(n) == [kind |-> "Int64", v |-> n]
Utf8(str) == [kind |-> "Utf8", v |-> str]

AccIdle ==
    /\ aVariant = "executor" /\ aIndex = 0 /\ aInput = <<>> /\ aPool = <<>>
    /\ aData = <<>> /\ aN = <<>> /\ aSeen = <<>> /\ aMerged = {}
    /\ aLastOp = "new" /\ aOut = NoValue

\* TimeInputAccumulator::new for every accumulator; the column is a prefix of Rows.
AccStart ==
    /\ aVariant \in {"executor", "query_functions"}
    /\ aIndex \in 0..2
    /\ \E n \in 0..Len(Rows) : aInput = SubSeq(Rows, 1, n)
    /\ aPool = aInput
    /\ aData = [a \in Accs |-> <<>>]
    /\ aN = [a \in Accs |-> 0]
    /\ aSeen = [a \in Accs |-> EmptyBag]
    /\ aMerged = {}
    /\ aLastOp = "new"
    /\ aOut = NoValue

\* TimeInputAccumulator::update over the rows of a batch: each Utf8 value is
\* parsed and its timestamp pushed.
UpdatedData(data, rows) ==
    data \o [i \in 1..Len(rows) |-> Timestamp(rows[i])]

\* update_batch: accumulator a receives the next k rows of the column.
UpdateBatch(a, k) ==
    /\ aOut = NoValue
    /\ a \notin aMerged
    /\ k <= Len(aPool)
    /\ LET rows == SubSeq(aPool, 1, k) IN
        /\ aData' = [aData EXCEPT ![a] = UpdatedData(aData[a], rows)]
        /\ aSeen' = [aSeen EXCEPT ![a] = @ (+) SeqToBag(UpdatedData(<<>>, rows))]
    /\ aPool' = SubSeq(aPool, k + 1, Len(aPool))
    /\ aLastOp' = IF a = Final THEN "update" ELSE aLastOp
    /\ UNCHANGED <<aVariant, aIndex, aInput, aN, aMerged, aOut, notAcc>>

\* ActiveLongest::merge_index on one list state: push, sort, sweep, keep the
\* component the aggregate projects.
MergedDataUnsorted(data, state) == data \o state

MergedData(data, state) == sort_unstable(data \o state)

merge_index(acc, state, index) ==
    LET data == MergedData(acc.data, state)
        ret  == calc_longest(data, 3600 * 24)
    IN [data |-> data, n |-> IF index \in 0..2 THEN ret[index + 1] ELSE acc.n]

\* ActiveLongest::merge_batch: merge_index once per row of the states array.
RECURSIVE merge_rows(_, _, _)
merge_rows(acc, states, index) ==
    IF states = <<>> THEN acc
    ELSE merge_rows(merge_index(acc, Head(states), index), Tail(states), index)

Perms(S) ==
    {f \in [1..Cardinality(S) -> S] : \A i, j \in 1..Cardinality(S) : f[i] = f[j] => i = j}

\* merge_batch on the final accumulator with the states of the partial
\* accumulators in order ps.
MergeBatch(ps) ==
    /\ aOut = NoValue
    /\ LET acc == merge_rows([data |-> aData[Final], n |-> aN[Final]],
                             [i \in 1..Len(ps) |-> aData[ps[i]]], aIndex)
       IN /\ aData' = [aData EXCEPT ![Final] = acc.data]
          /\ aN' = [aN EXCEPT ![Final] = acc.n]
    /\ aSeen' = [aSeen EXCEPT ![Final] =
                    @ (+) SeqToBag(Flatten([i \in 1..Len(ps) |-> aData[ps[i]]]))]
    /\ aMerged' = aMerged \cup {ps[i] : i \in 1..Len(ps)}
    /\ aLastOp' = "merge"
    /\ UNCHANGED <<aVariant, aIndex, aInput, aPool, aOut, notAcc>>

\* evaluate of ActiveLongestCount: n as an Int64.
evaluate_count(n) == Int64(n)

\* evaluate of ActiveLongestTime in executor.rs.
evaluate_time_executor(n) == Utf8(FormatYmd(n))

\* evaluate of ActiveLongestTime in query_functions.rs: one day is added.
evaluate_time_query_functions(n) == Utf8(FormatYmd(n + DAY))

evaluate(variant, index, n) ==
    IF index = 0 THEN evaluate_count(n)
    ELSE IF variant = "executor" THEN evaluate_time_executor(n)
    ELSE evaluate_time_query_functions(n)

Evaluate ==
    /\ aOut = NoValue
    /\ aOut' = evaluate(aVariant, aIndex, aN[Final])
    /\ UNCHANGED <<aVariant, aIndex, aInput, aPool, aData, aN, aSeen, aMerged, aLastOp, notAcc>>

NextAcc ==
    \/ \E a \in Accs, k \in 1..MaxBatch : UpdateBatch(a, k)
    \/ \E T \in (SUBSET (Parts \ aMerged)) \ {{}} : \E ps \in Perms(T) : MergeBatch(ps)
    \/ Evaluate

(***************************************************************************)
(* Repositories and their git histories, the input of the pipeline.       *)
(* Strings the code takes apart (emails, paths) are sequences of           *)
(* characters; the others are atoms.                                       *)
(***************************************************************************)
Author(name, email) == [name |-> name, email |-> email]

\* str.splitn(2, ch): the pieces before and after the first ch, or the
\* whole string when it holds no ch.
splitn2(s, ch) ==
    IF \E i \in 1..Len(s) : s[i] = ch
    THEN LET k == CHOOSE i \in 1..Len(s) : s[i] = ch /\ \A j \in 1..(i - 1) : s[j] # ch
         IN <<SubSeq(s, 1, k - 1), SubSeq(s, k + 1, Len(s))>>
    ELSE <<s>>

\* Author::domain (config.rs:36): the last piece of splitn(2, '@').
domain(author) ==
    LET fields == splitn2(author.email, "@")
    IN fields[Len(fields)]

AliceWork == Author("alice", <<"a", "@", "w", ".", "i", "o">>)
AliceHome == Author("alice", <<"a", "@", "h", ".", "m", "e">>)
Bob == Author("bob", <<"b", "@", "q", "q">>)

\* create.author_mappings of the configuration.
AuthorMappings == << [source |-> AliceHome, destination |-> AliceWork] >>

\* A header line `<%ad> <%H> <%aN> <%aE>` of git log and a numstat line
\* `ins \t del \t path`, held as their fields.  ins and del are a decimal
\* number or "-", as printed.
Header(dt, hash, author) ==
    [kind |-> "header", datetime |-> dt, hash |-> hash,
     name |-> author.name, email |-> author.email]
Numstat(ins, del, path) == [kind |-> "numstat", ins |-> ins, del |-> del, path |-> path]

PathARs == <<"a", ".", "r", "s">>
PathBMd == <<"s", "/", "b", ".", "m", "d">>
PathCRs == <<"c", ".", "r", "s">>
PathMake == <<"M", "k">>

\* A commit of a history: the lines git log --numstat prints for it.
GitCommit(header, numstat) == [header |-> header, numstat |-> numstat]

D0 == Dt(1970, 1, 1, 9, 0, 0, 0)
D30 == Dt(1970, 1, 31, 9, 0, 0, 0)
D120 == Dt(1970, 5, 1, 9, 0, 0, 0)
D240 == Dt(1970, 8, 29, 9, 0, 0, 0)

\* Histories, oldest commit first.  LongHistory spans 120 days, so that its
\* last commit lies on the date two windows share.
OneCommit == << GitCommit(Header(D0, "h1", Bob), <<>>) >>
LongHistory ==
    << GitCommit(Header(D0, "h1", Bob), <<>>),
       GitCommit(Header(D120, "h2", AliceHome),
                 <<Numstat("1", "0", PathARs), Numstat("-", "-", PathBMd),
                   Numstat("2", "5", PathCRs)>>) >>
YearHistory ==
    << GitCommit(Header(D0, "h1", Bob),
                 <<Numstat("1", "1", PathARs), Numstat("2", "0", PathMake)>>),
       GitCommit(Header(D120, "h2", AliceHome),
                 <<Numstat("1", "0", PathARs), Numstat("0", "3", PathBMd)>>),
       GitCommit(Header(D240, "h3", Bob), <<>>) >>
\* ShortHistory spans less than one window, on two dates.
ShortHistory ==
    << GitCommit(Header(D0, "h1", Bob), <<Numstat("1", "0", PathARs)>>),
       GitCommit(Header(D30, "h2", AliceHome), <<>>) >>
ForkHistory == << GitCommit(Header(D0, "h7", AliceHome), <<>>) >>
ManyCommits ==
    << GitCommit(Header(D0, "h1", Bob), <<Numstat("3", "1", PathARs)>>),
       GitCommit(Header(D0, "h2", AliceHome), <<>>),
       GitCommit(Header(D0, "h3", Bob), <<Numstat("1", "1", PathMake)>>) >>

Repository(name, branch, forks, stars) ==
    [name |-> name, branch |-> branch, forks_count |-> forks, stargazers_count |-> stars]

\* What the git repository at repo.path holds: its history (oldest first),
\* its tags as (name, hash) and the language statistics of its work tree.
Checkout(history, tags, stats) == [history |-> history, tags |-> tags, stats |-> stats]

FileExtStat(ext, code, comments, blanks) ==
    [ext |-> ext, code |-> code, comments |-> comments, blanks |-> blanks]

\* The databases of the model: the repos database.load() returns, each with
\* the checkout found at its path.  serialize_records is run on those of
\* PipeDbs; the histories of "year" and "short" are kept for
\* GitImpl::commits alone.
Databases ==
    [ windowed |->
        << [repo |-> Repository("r1", "main", 1, 2),
            git  |-> Checkout(LongHistory, << <<"v1", "h2">> >>, <<>>)] >>,
      sharded |->
        << [repo |-> Repository("r1", "", 0, 0),
            git  |-> Checkout(ManyCommits, <<>>, <<FileExtStat("rust", 10, 2, 1)>>)] >>,
      pair |->
        << [repo |-> Repository("r1", "", 0, 0),
            git  |-> Checkout(OneCommit, <<>>, <<>>)],
           [repo |-> Repository("r2", "dev", 5, 7),
            git  |-> Checkout(ForkHistory, <<>>, <<>>)] >>,
      year |->
        << [repo |-> Repository("r1", "", 0, 0),
            git  |-> Checkout(YearHistory, <<>>, <<>>)] >>,
      short |->
        << [repo |-> Repository("r1", "", 0, 0),
            git  |-> Checkout(ShortHistory, <<>>, <<>>)] >> ]

DbNames == DOMAIN Databases
PipeDbs == {"windowed", "sharded", "pair"}
Repos == Databases[db]
RepoIds == 1..Len(Repos)

(***************************************************************************)
(* Parser (gitimp.rs:158).                                                 *)
(***************************************************************************)
AlnumChars ==
    {"a", "b", "c", "d", "e", "f", "g", "h", "i", "j", "k", "l", "m", "n", "o",
     "p", "q", "r", "s", "t", "u", "v", "w", "x", "y", "z", "M", "0", "1", "2"}

\* Parser::parse_commit_info: Err on a regex miss, else the fields of the
\* header with the first matching author mapping applied.
MappedAuthorLast(author, mappings) ==
    LET hits == {i \in 1..Len(mappings) : mappings[i].source = author}
    IN IF hits = {} THEN author
       ELSE mappings[CHOOSE i \in hits : \A j \in hits : j <= i].destination

MappedAuthor(author, mappings) ==
    LET hits == {i \in 1..Len(mappings) : mappings[i].source = author}
    IN IF hits = {} THEN author
       ELSE mappings[CHOOSE i \in hits : \A j \in hits : i <= j].destination

parse_commit_info(line, mappings) ==
    IF line.kind # "header" THEN [ok |-> FALSE]
    ELSE [ok |-> TRUE, datetime |-> line.datetime, hash |-> line.hash,
          author |-> MappedAuthor(Author(line.name, line.email), mappings)]

\* Path::extension: the part of the file name after its last '.', none when
\* the name has no '.' or only a leading one.
FileName(path) ==
    LET slashes == {i \in 1..Len(path) : path[i] = "/"}
    IN IF slashes = {} THEN path
       ELSE SubSeq(path, (CHOOSE i \in slashes : \A j \in slashes : j <= i) + 1, Len(path))

HasExtension(path) ==
    LET name == FileName(path)
    IN \E i \in 2..Len(name) : name[i] = "."

PathExtension(path) ==
    LET name == FileName(path)
        dots == {i \in 2..Len(name) : name[i] = "."}
        k == CHOOSE i \in dots : \A j \in dots : j <= i
    IN SubSeq(name, k + 1, Len(name))

\* Characters whose UTF-8 encoding takes more than one byte.
MultiByte == {"U+00E9"}

\* gitimp.rs:214-217 on change.ext.  n is len() - 1, counted in bytes, and
\* chars().nth(n).unwrap() panics when the string has no n-th character:
\* for the empty extension (of a path such as "a.") and for one that holds
\* a character of several bytes.
NormalizePanics(ext) == ext = <<>> \/ \E i \in 1..Len(ext) : ext[i] \in MultiByte

\* Else the last character is removed when it is not ASCII alphanumeric.
Normalize(ext) ==
    IF ext[Len(ext)] \notin AlnumChars THEN SubSeq(ext, 1, Len(ext) - 1) ELSE ext

\* gitimp.rs:211-221: the normalized extension of a path, empty for a path
\* with no extension.
NormalizedExt(path) ==
    IF HasExtension(path) THEN Normalize(PathExtension(path)) ELSE <<>>

\* The path makes parse_commit_changes panic.
PathPanics(path) == HasExtension(path) /\ NormalizePanics(PathExtension(path))

\* cap.parse::<usize>().unwrap_or_default(): the number a field of one
\* digit writes, 0 for any other field.
Digits == <<"0", "1", "2", "3", "4", "5", "6", "7", "8", "9">>
ParseCount(field) ==
    IF \E i \in 1..10 : Digits[i] = field
    THEN (CHOOSE i \in 1..10 : Digits[i] = field) - 1
    ELSE 0

FileExtChange(ext, insertion, deletion) ==
    [ext |-> ext, insertion |-> insertion, deletion |-> deletion]

\* The entries of the HashMap<String, FileExtChange> after all lines.
GroupedChanges(lines) ==
    { FileExtChange(e,
        SeqSum([i \in 1..Len(lines) |->
                  IF NormalizedExt(lines[i].path) = e THEN ParseCount(lines[i].ins) ELSE 0]),
        SeqSum([i \in 1..Len(lines) |->
                  IF NormalizedExt(lines[i].path) = e THEN ParseCount(lines[i].del) ELSE 0]))
      : e \in {NormalizedExt(lines[i].path) : i \in 1..Len(lines)} }

\* The orders in which `for c in changes` can walk the HashMap: the order
\* depends on the map's RandomState, which differs from map to map.
IterationOrders(S) == Perms(S)

\* Parser::parse_commit on the lines of one commit: the Commits it can
\* return, none when a line misses its regex (Err).
ParseCommitOutcomes(lines, mappings) ==
    LET info == parse_commit_info(lines[1], mappings)
        rest == SubSeq(lines, 2, Len(lines))
    IN IF ~info.ok \/ \E i \in 1..Len(rest) : rest[i].kind # "numstat" THEN {}
       ELSE { [repo |-> "", hash |-> info.hash, author |-> info.author,
               datetime |-> info.datetime, change_files |-> Len(rest),
               changes |-> order]
              : order \in IterationOrders(GroupedChanges(rest)) }

\* The lines of git log --numstat for a commit.
LinesOf(gc) == <<gc.header>> \o gc.numstat

(***************************************************************************)
(* Partitioner (gitimp.rs:256-324).                                        *)
(***************************************************************************)
DURATION == 3600 * 24 * 120

RECURSIVE calc_range_strict(_, _, _)
calc_range_strict(duration, start, end) ==
    IF start + duration < end
    THEN <<<<FormatYmd(start), FormatYmd(start + duration)>>>>
            \o calc_range_strict(duration, start + duration, end)
    ELSE <<<<FormatYmd(start), FormatYmd(end)>>>>

RECURSIVE calc_range(_, _, _)
calc_range(duration, start, end) ==
    IF start + duration <= end
    THEN <<<<FormatYmd(start), FormatYmd(start + duration)>>>>
            \o calc_range(duration, start + duration, end)
    ELSE <<<<FormatYmd(start), FormatYmd(end)>>>>

\* DateTime::parse_from_rfc2822(..)?.timestamp() of a header's date.
IsDatetime(dt) == dt.mo \in 1..12 /\ dt.d \in 1..31

\* range_commits replacing every single window by the sentinel, whatever its
\* ends.
range_commits_single(git) ==
    IF git.history = <<>> THEN [ok |-> FALSE]
    ELSE LET first == parse_commit_info(git.history[1].header, <<>>)
             last  == parse_commit_info(git.history[Len(git.history)].header, <<>>)
         IN IF ~first.ok \/ ~last.ok THEN [ok |-> FALSE]
            ELSE IF ~IsDatetime(first.datetime) \/ ~IsDatetime(last.datetime)
            THEN [ok |-> FALSE]
            ELSE LET data == calc_range(DURATION, Timestamp(first.datetime),
                                        Timestamp(last.datetime))
                 IN IF Len(data) = 1
                    THEN [ok |-> TRUE, windows |-> << <<"", "">> >>]
                    ELSE [ok |-> TRUE, windows |-> data]

\* GitImpl::range_commits: Err for an empty history or a first or last
\* header that does not parse, else the windows of calc_range, replaced by
\* the sentinel ("", "") when there is one window with equal ends.
range_commits(git) ==
    IF git.history = <<>> THEN [ok |-> FALSE]
    ELSE LET first == parse_commit_info(git.history[1].header, <<>>)
             last  == parse_commit_info(git.history[Len(git.history)].header, <<>>)
         IN IF ~first.ok \/ ~last.ok THEN [ok |-> FALSE]
            ELSE IF ~IsDatetime(first.datetime) \/ ~IsDatetime(last.datetime)
            THEN [ok |-> FALSE]
            ELSE LET data == calc_range(DURATION, Timestamp(first.datetime),
                                        Timestamp(last.datetime))
                 IN IF Len(data) = 1 /\ data[1][1] = data[1][2]
                    THEN [ok |-> TRUE, windows |-> << <<"", "">> >>]
                    ELSE [ok |-> TRUE, windows |-> data]

\* What `git log --since=<since> --before=<before> HEAD` prints: the commits
\* dated from since to before, both dates included; every commit when
\* both are empty.  Indices into the history.
DayOfCommit(gc) == Timestamp(gc.header.datetime) \div DAY

LastDay(history) ==
    SetMax({IF IsDatetime(history[i].header.datetime) THEN DayOfCommit(history[i]) ELSE 0
            : i \in 1..Len(history)})

\* The bounds GitImpl::commits passes to git log for a window: none when
\* since and before are both empty.
CommitsLogArgs(window) ==
    IF window[1] = "" /\ window[2] = "" THEN <<"HEAD">>
    ELSE <<"--since=", window[1], "--before=", window[2], "HEAD">>

GitLog(history, args) ==
    IF args = <<"HEAD">> THEN 1..Len(history)
    ELSE {i \in 1..Len(history) :
            /\ IsDatetime(history[i].header.datetime)
            /\ \E x \in 0..DayOfCommit(history[i]) : FormatYmd(x * DAY) = args[2]
            /\ \E y \in DayOfCommit(history[i])..(LastDay(history) + 120) :
                    FormatYmd(y * DAY) = args[4]}

GitLogWindow(history, since, before) == GitLog(history, CommitsLogArgs(<<since, before>>))

(***************************************************************************)
(* Records (record.rs:16-104).                                             *)
(***************************************************************************)
\* String::to_rfc339 of the datetime of a header: the same instant written
\* in RFC 3339, nothing for a datetime that does not parse.
to_rfc339(dt) ==
    IF IsDatetime(dt) THEN [format |-> "rfc3339", at |-> dt] ELSE [format |-> "", at |-> dt]

RecordCommit(repo, c) ==
    [type |-> "commit", repo_name |-> repo.name, hash |-> c.hash,
     branch |-> repo.branch, datetime |-> to_rfc339(c.datetime),
     author_name |-> c.author.name, author_email |-> c.author.email,
     author_domain |-> domain(c.author)]

RecordChange(repo, c, fc) ==
    [type |-> "change", repo_name |-> repo.name, hash |-> c.hash,
     branch |-> repo.branch, datetime |-> to_rfc339(c.datetime),
     author_name |-> c.author.name, author_email |-> c.author.email,
     author_domain |-> domain(c.author),
     ext |-> fc.ext, insertion |-> fc.insertion, deletion |-> fc.deletion]

RecordTag(repo, tag) ==
    [type |-> "tag", repo_name |-> repo.name, branch |-> repo.branch,
     datetime |-> to_rfc339(tag.datetime), tag |-> tag.tag]

RecordSnapshot(repo, datetime, stat) ==
    [type |-> "snapshot", repo_name |-> repo.name, branch |-> repo.branch,
     datetime |-> to_rfc339(datetime), ext |-> stat.ext, code |-> stat.code,
     comments |-> stat.comments, blanks |-> stat.blanks]

RecordActive(repo) ==
    [type |-> "active", repo_name |-> repo.name,
     forks |-> repo.forks_count, stars |-> repo.stargazers_count]

\* The sends of send_commit_records for one commit, in order.
CommitRecordsNoChanges(repo, c) == <<RecordCommit(repo, c)>>

CommitRecords(repo, c) ==
    <<RecordCommit(repo, c)>>
        \o [i \in 1..Len(c.changes) |-> RecordChange(repo, c, c.changes[i])]

\* The sends of send_commit_records for a Vec<Commit>.
CommitsRecords(repo, commits) ==
    Flatten([i \in 1..Len(commits) |-> CommitRecords(repo, commits[i])])

\* GitImpl::snapshot: Err when git log HEAD prints nothing or its first
\* line is no header, else the datetime of HEAD and the stats.
snapshot(git) ==
    IF git.history = <<>> THEN [ok |-> FALSE]
    ELSE LET head == parse_commit_info(git.history[Len(git.history)].header, <<>>)
         IN IF ~head.ok THEN [ok |-> FALSE]
            ELSE [ok |-> TRUE, datetime |-> head.datetime, stats |-> git.stats]

\* GitImpl::tags: one Tag per line of show-ref whose commit git log finds;
\* Err when such a commit does not parse.
TagCommit(git, hash) ==
    {i \in 1..Len(git.history) : git.history[i].header.hash = hash}

tags(git, mappings) ==
    LET found == SelectSeq(git.tags, LAMBDA t : TagCommit(git, t[2]) # {})
        info(t) == parse_commit_info(
                       git.history[CHOOSE i \in TagCommit(git, t[2]) : TRUE].header, mappings)
    IN IF \E i \in 1..Len(found) : ~info(found[i]).ok THEN [ok |-> FALSE]
       ELSE [ok |-> TRUE,
             tags |-> [i \in 1..Len(found) |->
                         [tag |-> found[i][1], datetime |-> info(found[i]).datetime]]]

(***************************************************************************)
(* State of serialize_records.                                             *)
(***************************************************************************)
Kinds == <<"commits", "snapshot", "tags", "active">>
\* The workers of serialize_commits_sectional, by their index.
Worker(i) == "worker" \o ToString(i)
Workers == {Worker(i) : i \in 0..(NumCpus - 1)}
TaskIds == RepoIds \X ({Kinds[k] : k \in 1..4} \cup Workers)
Files == {"commit", "change", "tag", "snapshot", "active"}
Ended == {"ok", "err"}
\* What commits() has returned.
NoVec == [returned |-> FALSE, vec |-> <<>>]
Returned(vec) == [returned |-> TRUE, vec |-> vec]

Task(pc, q, i) == [pc |-> pc, q |-> q, i |-> i]
Unspawned == Task("unspawned", <<>>, 0)

\* The state of a run on database d whose subtasks are at s.
PipeAt(d, s) ==
    /\ db = d
    /\ exited = FALSE
    /\ faults = MaxFaults
    /\ orch = [pc |-> "start", i |-> 1, tx |-> TRUE]
    /\ repoT = [r \in RepoIds |-> [pc |-> "unspawned", j |-> 1, n |-> 0]]
    /\ counter = 0
    /\ sub = s
    /\ cWin = [r \in RepoIds |-> <<>>]
    /\ cPc = [r \in RepoIds |-> <<>>]
    /\ cSet = [r \in RepoIds |-> {}]
    /\ cOut = [r \in RepoIds |-> NoVec]
    /\ wq = [t \in RepoIds \X Workers |-> <<>>]
    /\ chan = <<>>
    /\ rxAlive = TRUE
    /\ sink = "unspawned"
    /\ wtr = [f \in Files |-> [curr |-> 0, buf |-> EmptyBag, disk |-> EmptyBag]]
    /\ handed = EmptyBag
    /\ sent = EmptyBag

\* Before serialize_records is called on database d.
PipeIdleFor(d) == PipeAt(d, [t \in TaskIds |-> Unspawned])

PipeIdle == PipeIdleFor("pair")

PipeStart == \E d \in PipeDbs : PipeIdleFor(d)

Running == ~exited

RepoOf(r) == Repos[r].repo
GitOf(r) == Repos[r].git

\* A Sender of the record channel is held by the orchestrator until it drops
\* it, by every repo task and by every subtask and worker until it ends.
SendersAlive ==
    \/ orch.tx
    \/ \E r \in RepoIds : repoT[r].pc \notin Ended
    \/ \E t \in TaskIds : sub[t].pc \notin (Ended \cup {"unspawned"})

(***************************************************************************)
(* The record channel (tokio::sync::mpsc::channel(BUFFER_SIZE)).           *)
(***************************************************************************)
\* What a subtask returns when tx.send(..).await is an error (record.rs:134,
\* 151, 233, 252, 265: `return Ok(())`).
SendFailedResultErr == "err"

SendFailedResult == "ok"

\* send().await completes when the receiver is gone or a slot is free.
CanSend == ~rxAlive \/ Len(chan) < BUFFER_SIZE

\* The receiver is dropped: the channel closes and what it holds is lost.
RxDropped == rxAlive' = FALSE /\ chan' = <<>>

\* A subtask of a repo sends the next record of its loop.
Send(t) ==
    /\ Running
    /\ t[2] \notin Workers
    /\ sub[t].pc = "send"
    /\ CanSend
    /\ IF rxAlive
       THEN /\ chan' = Append(chan, Head(sub[t].q))
            /\ sent' = sent (+) SetToBag({Head(sub[t].q)})
            /\ sub' = [sub EXCEPT ![t] =
                        IF Len(@.q) = 1 THEN Task("ok", <<>>, 0)
                        ELSE Task("send", Tail(@.q), 0)]
       ELSE /\ sub' = [sub EXCEPT ![t] = Task(SendFailedResult, <<>>, 0)]
            /\ UNCHANGED <<chan, sent>>
    /\ UNCHANGED <<db, exited, faults, orch, repoT, counter, cWin, cPc, cSet, cOut,
                   wq, rxAlive, sink, wtr, handed, notPipe>>

\* A call returns with the records it is to send: straight to Ok when there
\* are none.
Sending(q) == IF q = <<>> THEN Task("ok", <<>>, 0) ELSE Task("send", q, 0)

(***************************************************************************)
(* serialize_records: the orchestrator (record.rs:311-383).               *)
(***************************************************************************)
\* clone_or_pull has returned; every repo task and the sink are spawned.
OrchSpawn ==
    /\ Running
    /\ orch.pc = "start"
    /\ orch' = [orch EXCEPT !.pc = "join"]
    /\ repoT' = [r \in RepoIds |-> [pc |-> "checkout", j |-> 1, n |-> 0]]
    /\ sink' = "open"
    /\ UNCHANGED <<db, exited, faults, counter, sub, cWin, cPc, cSet, cOut, wq, chan,
                   rxAlive, wtr, handed, sent, notPipe>>

\* clone_or_pull: a git pull or clone fails and the process exits.
OrchCloneFails ==
    /\ Running
    /\ orch.pc = "start"
    /\ faults > 0
    /\ faults' = faults - 1
    /\ exited' = TRUE
    /\ UNCHANGED <<db, orch, repoT, counter, sub, cWin, cPc, cSet, cOut, wq, chan,
                   rxAlive, sink, wtr, handed, sent, notPipe>>

OrchJoinNoWait ==
    /\ Running
    /\ orch.pc = "join"
    /\ orch' = IF orch.i = Len(Repos)
                 THEN [pc |-> "drop", i |-> orch.i, tx |-> TRUE]
               ELSE [orch EXCEPT !.i = @ + 1]
    /\ UNCHANGED <<db, exited, faults, repoT, counter, sub, cWin, cPc, cSet, cOut, wq,
                   chan, rxAlive, sink, wtr, handed, sent, notPipe>>

\* `for handle in handles { handle.await??; }`: Err returns at once, which
\* drops tx; after the last handle comes drop(tx).
OrchJoin ==
    /\ Running
    /\ orch.pc = "join"
    /\ repoT[orch.i].pc \in Ended
    /\ orch' = IF repoT[orch.i].pc = "err"
                 THEN [pc |-> "err", i |-> orch.i, tx |-> FALSE]
               ELSE IF orch.i = Len(Repos)
                 THEN [pc |-> "drop", i |-> orch.i, tx |-> TRUE]
               ELSE [orch EXCEPT !.i = @ + 1]
    /\ UNCHANGED <<db, exited, faults, repoT, counter, sub, cWin, cPc, cSet, cOut, wq,
                   chan, rxAlive, sink, wtr, handed, sent, notPipe>>

\* drop(tx)
OrchDropTx ==
    /\ Running
    /\ orch.pc = "drop"
    /\ orch' = [orch EXCEPT !.pc = "join_sink", !.tx = FALSE]
    /\ UNCHANGED <<db, exited, faults, repoT, counter, sub, cWin, cPc, cSet, cOut, wq,
                   chan, rxAlive, sink, wtr, handed, sent, notPipe>>

\* rev.await??
OrchJoinSink ==
    /\ Running
    /\ orch.pc = "join_sink"
    /\ sink \in Ended
    /\ orch' = [orch EXCEPT !.pc = sink]
    /\ UNCHANGED <<db, exited, faults, repoT, counter, sub, cWin, cPc, cSet, cOut, wq,
                   chan, rxAlive, sink, wtr, handed, sent, notPipe>>

(***************************************************************************)
(* The task of one repo (record.rs:330-346) and analyze_repo (271-309).   *)
(***************************************************************************)
\* GitImpl::checkout succeeds (it runs git only for a named branch) and
\* analyze_repo spawns the four subtasks; serialize_active starts at its send.
RepoCheckout(r) ==
    /\ Running
    /\ repoT[r].pc = "checkout"
    /\ repoT' = [repoT EXCEPT ![r] = [pc |-> "join", j |-> 1, n |-> 0]]
    /\ sub' = [t \in TaskIds |->
                IF t[1] # r THEN sub[t]
                ELSE IF t[2] = "commits" THEN Task("hash", <<>>, 0)
                ELSE IF t[2] \in {"snapshot", "tags"} THEN Task("git", <<>>, 0)
                ELSE IF t[2] = "active" THEN Task("send", <<RecordActive(RepoOf(r))>>, 0)
                ELSE sub[t]]
    /\ UNCHANGED <<db, exited, faults, orch, counter, cWin, cPc, cSet, cOut, wq, chan,
                   rxAlive, sink, wtr, handed, sent, notPipe>>

\* git checkout fails: the task returns the error.
RepoCheckoutFails(r) ==
    /\ Running
    /\ repoT[r].pc = "checkout"
    /\ RepoOf(r).branch # ""
    /\ faults > 0
    /\ faults' = faults - 1
    /\ repoT' = [repoT EXCEPT ![r].pc = "err"]
    /\ UNCHANGED <<db, exited, orch, counter, sub, cWin, cPc, cSet, cOut, wq, chan,
                   rxAlive, sink, wtr, handed, sent, notPipe>>

\* analyze_repo: `for handle in handles { handle.await??; }` over commits,
\* snapshot, tags, active in that order.
RepoJoin(r) ==
    /\ Running
    /\ repoT[r].pc = "join"
    /\ sub[<<r, Kinds[repoT[r].j]>>].pc \in Ended
    /\ repoT' = [repoT EXCEPT ![r] =
                    IF sub[<<r, Kinds[@.j]>>].pc = "err" THEN [@ EXCEPT !.pc = "err"]
                    ELSE IF @.j = 4 THEN [@ EXCEPT !.pc = "count"]
                    ELSE [@ EXCEPT !.j = @ + 1]]
    /\ UNCHANGED <<db, exited, faults, orch, counter, sub, cWin, cPc, cSet, cOut, wq,
                   chan, rxAlive, sink, wtr, handed, sent, notPipe>>

\* The same step with the index read before the increment is taken, as it
\* would be without the guard held across both statements.
RepoCountStale(r) ==
    /\ Running
    /\ repoT[r].pc = "count"
    /\ counter' = counter + 1
    /\ repoT' = [repoT EXCEPT ![r].pc = "ok", ![r].n = counter]
    /\ UNCHANGED <<db, exited, faults, orch, sub, cWin, cPc, cSet, cOut, wq, chan,
                   rxAlive, sink, wtr, handed, sent, notPipe>>

\* The progress counter under its mutex: `*lock += 1; let n = lock;` and the
\* println of [n/total] all run with the guard held, so the step is atomic.
RepoCount(r) ==
    /\ Running
    /\ repoT[r].pc = "count"
    /\ counter' = counter + 1
    /\ repoT' = [repoT EXCEPT ![r].pc = "ok", ![r].n = counter + 1]
    /\ UNCHANGED <<db, exited, faults, orch, sub, cWin, cPc, cSet, cOut, wq, chan,
                   rxAlive, sink, wtr, handed, sent, notPipe>>

(***************************************************************************)
(* serialize_snapshot, serialize_tags (record.rs:221-257).                *)
(***************************************************************************)
SnapshotGit(r) ==
    /\ Running
    /\ sub[<<r, "snapshot">>].pc = "git"
    /\ LET s == snapshot(GitOf(r)) IN
        sub' = [sub EXCEPT ![<<r, "snapshot">>] =
                  IF ~s.ok THEN Task("err", <<>>, 0)
                  ELSE Sending([i \in 1..Len(s.stats) |->
                                  RecordSnapshot(RepoOf(r), s.datetime, s.stats[i])])]
    /\ UNCHANGED <<db, exited, faults, orch, repoT, counter, cWin, cPc, cSet, cOut, wq,
                   chan, rxAlive, sink, wtr, handed, sent, notPipe>>

TagsGit(r) ==
    /\ Running
    /\ sub[<<r, "tags">>].pc = "git"
    /\ LET s == tags(GitOf(r), AuthorMappings) IN
        sub' = [sub EXCEPT ![<<r, "tags">>] =
                  IF ~s.ok THEN Task("err", <<>>, 0)
                  ELSE Sending([i \in 1..Len(s.tags) |-> RecordTag(RepoOf(r), s.tags[i])])]
    /\ UNCHANGED <<db, exited, faults, orch, repoT, counter, cWin, cPc, cSet, cOut, wq,
                   chan, rxAlive, sink, wtr, handed, sent, notPipe>>

\* A git command of snapshot, tags, commits_hash or range_commits cannot be
\* run: the subtask returns the error.
GitFails(t) ==
    /\ Running
    /\ \/ t[2] \in {"snapshot", "tags"} /\ sub[t].pc = "git"
       \/ t[2] = "commits" /\ sub[t].pc \in {"hash", "range"}
    /\ faults > 0
    /\ faults' = faults - 1
    /\ sub' = [sub EXCEPT ![t] = Task("err", <<>>, 0)]
    /\ UNCHANGED <<db, exited, orch, repoT, counter, cWin, cPc, cSet, cOut, wq, chan,
                   rxAlive, sink, wtr, handed, sent, notPipe>>

(***************************************************************************)
(* serialize_commits (record.rs:206-219) and GitImpl::commits             *)
(* (gitimp.rs:392-466).                                                    *)
(***************************************************************************)
\* GitImpl::commits_hash: every hash of the history.
commits_hash(git) == [i \in 1..Len(git.history) |-> git.history[i].header.hash]

\* txs[idx % concurrency]
\* Every hash sent to the first worker.
ShardFirst(idx) == 0

ShardOf(idx) == idx % NumCpus

\* commits_hash has returned: above the limit the sectional path creates the
\* workers and their channels, else GitImpl::commits is called.
CommitsHash(r) ==
    /\ Running
    /\ sub[<<r, "commits">>].pc = "hash"
    /\ sub' = [t \in TaskIds |->
                IF t[1] # r THEN sub[t]
                ELSE IF Len(commits_hash(GitOf(r))) > SectionalOver
                THEN IF t[2] = "commits" THEN Task("dispatch", <<>>, 0)
                     ELSE IF t[2] \in Workers THEN Task("recv", <<>>, 0)
                     ELSE sub[t]
                ELSE IF t[2] = "commits" THEN Task("range", <<>>, 0)
                     ELSE sub[t]]
    /\ UNCHANGED <<db, exited, faults, orch, repoT, counter, cWin, cPc, cSet, cOut, wq,
                   chan, rxAlive, sink, wtr, handed, sent, notPipe>>

\* What range_commits returns for each repo of each database, and the
\* commits the git log of each of its windows prints.
RangeCommits ==
    [d \in DbNames |->
        [r \in 1..Len(Databases[d]) |-> range_commits(Databases[d][r].git)]]

GitLogs ==
    [d \in DbNames |->
        [r \in 1..Len(Databases[d]) |->
            IF ~RangeCommits[d][r].ok THEN <<>>
            ELSE [w \in 1..Len(RangeCommits[d][r].windows) |->
                    GitLogWindow(Databases[d][r].git.history,
                                 RangeCommits[d][r].windows[w][1],
                                 RangeCommits[d][r].windows[w][2])]]]

\* range_commits has returned: Err ends commits(), else one task per window
\* is spawned.
CommitsRange(r) ==
    /\ Running
    /\ sub[<<r, "commits">>].pc = "range"
    /\ LET rc == RangeCommits[db][r] IN
        IF ~rc.ok
        THEN /\ sub' = [sub EXCEPT ![<<r, "commits">>] = Task("err", <<>>, 0)]
             /\ UNCHANGED <<cWin, cPc>>
        ELSE /\ sub' = [sub EXCEPT ![<<r, "commits">>] = Task("windows", <<>>, 0)]
             /\ cWin' = [cWin EXCEPT ![r] = rc.windows]
             /\ cPc' = [cPc EXCEPT ![r] = [w \in 1..Len(rc.windows) |-> "log"]]
    /\ UNCHANGED <<db, exited, faults, orch, repoT, counter, cSet, cOut, wq, chan,
                   rxAlive, sink, wtr, handed, sent, notPipe>>

\* The task of window w: git log has printed its lines.
WinLog(r, w) ==
    /\ Running
    /\ sub[<<r, "commits">>].pc = "windows"
    /\ w \in 1..Len(cPc[r])
    /\ cPc[r][w] = "log"
    /\ cPc' = [cPc EXCEPT ![r][w] = "parse"]
    /\ UNCHANGED <<db, exited, faults, orch, repoT, counter, sub, cWin, cSet, cOut, wq,
                   chan, rxAlive, sink, wtr, handed, sent, notPipe>>

\* git log fails in a window task: exit(1) (gitimp.rs:431-434).
WinLogFails(r, w) ==
    /\ Running
    /\ sub[<<r, "commits">>].pc = "windows"
    /\ w \in 1..Len(cPc[r])
    /\ cPc[r][w] = "log"
    /\ faults > 0
    /\ faults' = faults - 1
    /\ exited' = TRUE
    /\ UNCHANGED <<db, orch, repoT, counter, sub, cWin, cPc, cSet, cOut, wq, chan,
                   rxAlive, sink, wtr, handed, sent, notPipe>>

\* The commits a window task can insert: for each commit of its git log
\* that parses, one of the Commits parse_commit can return, with repo set.
ParsedWindow(git, repo, idx) ==
    LET out(i) == {[c EXCEPT !.repo = repo.name] :
                     c \in ParseCommitOutcomes(LinesOf(git.history[i]), AuthorMappings)}
    IN {S \in SUBSET (UNION {out(i) : i \in idx}) :
           \A i \in idx : out(i) # {} => Cardinality(S \cap out(i)) = 1}

\* ParsedWindow for each window of each repo of each database.
ParsedWindows ==
    [d \in DbNames |->
        [r \in 1..Len(Databases[d]) |->
            [w \in 1..Len(GitLogs[d][r]) |->
                ParsedWindow(Databases[d][r].git, Databases[d][r].repo, GitLogs[d][r][w])]]]

WindowCommits(r, w) == ParsedWindows[db][r][w]

\* HashSet<Commit>::insert: a set of Commits compared on every field.
InsertAll(set, commits) == set \cup commits

\* The task of window w parses its lines under the mutex and inserts every
\* commit that parses into the shared set.
WinInsert(r, w) ==
    /\ Running
    /\ sub[<<r, "commits">>].pc = "windows"
    /\ w \in 1..Len(cPc[r])
    /\ cPc[r][w] = "parse"
    /\ \E S \in WindowCommits(r, w) : cSet' = [cSet EXCEPT ![r] = InsertAll(@, S)]
    /\ cPc' = [cPc EXCEPT ![r][w] = "done"]
    /\ UNCHANGED <<db, exited, faults, orch, repoT, counter, sub, cWin, cOut, wq, chan,
                   rxAlive, sink, wtr, handed, sent, notPipe>>

\* Every window task is joined: commits() returns the set as a Vec, in the
\* order the HashSet iterates, and send_commit_records is called with it.
CommitsCollect(r) ==
    /\ Running
    /\ sub[<<r, "commits">>].pc = "windows"
    /\ \A w \in 1..Len(cPc[r]) : cPc[r][w] = "done"
    /\ \E vec \in IterationOrders(cSet[r]) :
        /\ cOut' = [cOut EXCEPT ![r] = Returned(vec)]
        /\ handed' = handed (+) SeqToBag(vec)
        /\ sub' = [sub EXCEPT ![<<r, "commits">>] = Sending(CommitsRecords(RepoOf(r), vec))]
    /\ UNCHANGED <<db, exited, faults, orch, repoT, counter, cWin, cPc, cSet, wq, chan,
                   rxAlive, sink, wtr, sent, notPipe>>

(***************************************************************************)
(* serialize_commits_sectional (record.rs:159-204).                       *)
(***************************************************************************)
\* txs[idx % concurrency].send(hash).await?: Err when that worker has ended;
\* after the last hash every tx is dropped and the workers are joined.
Dispatch(r) ==
    /\ Running
    /\ sub[<<r, "commits">>].pc = "dispatch"
    /\ LET idx == sub[<<r, "commits">>].i
           hashs == commits_hash(GitOf(r))
           to == <<r, Worker(ShardOf(idx))>>
       IN IF sub[to].pc \in Ended
          THEN /\ sub' = [sub EXCEPT ![<<r, "commits">>] = Task("err", <<>>, 0)]
               /\ UNCHANGED wq
          ELSE /\ Len(wq[to]) < BUFFER_SIZE
               /\ wq' = [wq EXCEPT ![to] = Append(@, hashs[idx + 1])]
               /\ sub' = [sub EXCEPT ![<<r, "commits">>] =
                            IF idx + 1 = Len(hashs) THEN Task("joinw", <<>>, 0)
                            ELSE Task("dispatch", <<>>, idx + 1)]
    /\ UNCHANGED <<db, exited, faults, orch, repoT, counter, cWin, cPc, cSet, cOut, chan,
                   rxAlive, sink, wtr, handed, sent, notPipe>>

\* `for handle in handles { handle.await??; }`
JoinWorker(r) ==
    /\ Running
    /\ sub[<<r, "commits">>].pc = "joinw"
    /\ LET k == sub[<<r, "commits">>].i IN
        /\ sub[<<r, Worker(k)>>].pc \in Ended
        /\ sub' = [sub EXCEPT ![<<r, "commits">>] =
                     IF sub[<<r, Worker(k)>>].pc = "err" THEN Task("err", <<>>, 0)
                     ELSE IF k = NumCpus - 1 THEN Task("ok", <<>>, 0)
                     ELSE Task("joinw", <<>>, k + 1)]
    /\ UNCHANGED <<db, exited, faults, orch, repoT, counter, cWin, cPc, cSet, cOut, wq,
                   chan, rxAlive, sink, wtr, handed, sent, notPipe>>

\* GitImpl::commits(repo, mappings, hash): the commit `git log -n 1 <hash>
\* --numstat` prints, parsed; nothing when it does not parse.
CommitsOfHash(r, hash) ==
    LET idx == {i \in 1..Len(GitOf(r).history) : GitOf(r).history[i].header.hash = hash}
        out == UNION {ParseCommitOutcomes(LinesOf(GitOf(r).history[i]), AuthorMappings)
                      : i \in idx}
    IN IF out = {} THEN {<<>>}
       ELSE {<<[c EXCEPT !.repo = RepoOf(r).name]>> : c \in out}

\* A worker receives a hash, fetches its commit and calls send_commit_records.
WorkerRecv(r, i) ==
    /\ Running
    /\ sub[<<r, i>>].pc = "recv"
    /\ wq[<<r, i>>] # <<>>
    /\ wq' = [wq EXCEPT ![<<r, i>>] = Tail(@)]
    /\ \E vec \in CommitsOfHash(r, Head(wq[<<r, i>>])) :
        /\ handed' = handed (+) SeqToBag(vec)
        /\ sub' = [sub EXCEPT ![<<r, i>>] =
                     IF vec = <<>> THEN Task("recv", <<>>, 0)
                     ELSE Task("send", CommitsRecords(RepoOf(r), vec), 0)]
    /\ UNCHANGED <<db, exited, faults, orch, repoT, counter, cWin, cPc, cSet, cOut, chan,
                   rxAlive, sink, wtr, sent, notPipe>>

\* The git command of a worker cannot be run: the worker returns the error
\* and its receiver is dropped.
WorkerGitFails(r, i) ==
    /\ Running
    /\ sub[<<r, i>>].pc = "recv"
    /\ wq[<<r, i>>] # <<>>
    /\ faults > 0
    /\ faults' = faults - 1
    /\ wq' = [wq EXCEPT ![<<r, i>>] = <<>>]
    /\ sub' = [sub EXCEPT ![<<r, i>>] = Task("err", <<>>, 0)]
    /\ UNCHANGED <<db, exited, orch, repoT, counter, cWin, cPc, cSet, cOut, chan,
                   rxAlive, sink, wtr, handed, sent, notPipe>>

\* lines_rx.recv() returns None: the channel is empty and its tx dropped.
WorkerClosed(r, i) ==
    /\ Running
    /\ sub[<<r, i>>].pc = "recv"
    /\ wq[<<r, i>>] = <<>>
    /\ sub[<<r, "commits">>].pc \in {"joinw", "ok", "err"}
    /\ sub' = [sub EXCEPT ![<<r, i>>] = Task("ok", <<>>, 0)]
    /\ UNCHANGED <<db, exited, faults, orch, repoT, counter, cWin, cPc, cSet, cOut, wq,
                   chan, rxAlive, sink, wtr, handed, sent, notPipe>>

\* A worker sends the next record; send_commit_records returning, with Ok
\* also after a failed send, takes the worker back to its recv.
WorkerSend(r, i) ==
    /\ Running
    /\ sub[<<r, i>>].pc = "send"
    /\ CanSend
    /\ IF rxAlive
       THEN /\ chan' = Append(chan, Head(sub[<<r, i>>].q))
            /\ sent' = sent (+) SetToBag({Head(sub[<<r, i>>].q)})
            /\ sub' = [sub EXCEPT ![<<r, i>>] =
                        IF Len(@.q) = 1 THEN Task("recv", <<>>, 0)
                        ELSE Task("send", Tail(@.q), 0)]
       ELSE /\ sub' = [sub EXCEPT ![<<r, i>>] =
                        Task(IF SendFailedResult = "ok" THEN "recv" ELSE "err", <<>>, 0)]
            /\ UNCHANGED <<chan, sent>>
    /\ UNCHANGED <<db, exited, faults, orch, repoT, counter, cWin, cPc, cSet, cOut, wq,
                   rxAlive, sink, wtr, handed, notPipe>>

(***************************************************************************)
(* The sink task (record.rs:350-374) and CsvWriter (record.rs:386-417).    *)
(***************************************************************************)
\* `match record { RecordType::Commit(..) => commit_wtr, ... }`
WriterOf(record) == record.type

\* CsvWriter::flush: what the csv writer buffers goes to the file.
flush(w) == [w EXCEPT !.buf = EmptyBag, !.disk = w.disk (+) w.buf]

\* CsvWriter::write
write(w, record) ==
    LET n == [w EXCEPT !.curr = w.curr + 1, !.buf = w.buf (+) SetToBag({record})]
    IN IF n.curr >= FLUSH_SIZE THEN [flush(n) EXCEPT !.curr = 0] ELSE n

\* The five flushes after the receive loop.
final_flush_none(w) == w

final_flush(w) == [f \in Files |-> flush(w[f])]

\* The writers are dropped on an error: csv::Writer's Drop flushes what it
\* can, so each buffer either reaches its file or is lost.
DroppedWriters(w, F) ==
    [f \in Files |-> IF f \in F THEN flush(w[f]) ELSE [w[f] EXCEPT !.buf = EmptyBag]]

\* CsvWriter::try_new for the five files.
SinkOpen ==
    /\ Running
    /\ sink = "open"
    /\ sink' = "recv"
    /\ UNCHANGED <<db, exited, faults, orch, repoT, counter, sub, cWin, cPc, cSet, cOut,
                   wq, chan, rxAlive, wtr, handed, sent, notPipe>>

\* rx.recv() returns a record, which goes to the writer of its variant.
SinkWrite ==
    /\ Running
    /\ sink = "recv"
    /\ chan # <<>>
    /\ chan' = Tail(chan)
    /\ wtr' = [wtr EXCEPT ![WriterOf(Head(chan))] = write(@, Head(chan))]
    /\ UNCHANGED <<db, exited, faults, orch, repoT, counter, sub, cWin, cPc, cSet, cOut,
                   wq, rxAlive, sink, handed, sent, notPipe>>

\* rx.recv() returns None: every Sender is dropped and the channel is
\* empty.  The writers are flushed and the task returns Ok.
SinkClose ==
    /\ Running
    /\ sink = "recv"
    /\ chan = <<>>
    /\ ~SendersAlive
    /\ wtr' = final_flush(wtr)
    /\ sink' = "ok"
    /\ RxDropped
    /\ UNCHANGED <<db, exited, faults, orch, repoT, counter, sub, cWin, cPc, cSet, cOut,
                   wq, handed, sent, notPipe>>

\* An I/O error in try_new, in a write or in a final flush: the task returns
\* the error, which drops the receiver and the writers.
SinkFails ==
    /\ Running
    /\ \/ sink = "open"
       \/ sink = "recv" /\ chan # <<>>
       \/ sink = "recv" /\ chan = <<>> /\ ~SendersAlive
    /\ faults > 0
    /\ faults' = faults - 1
    /\ sink' = "err"
    /\ \E F \in SUBSET {f \in Files : wtr[f].buf # EmptyBag} : wtr' = DroppedWriters(wtr, F)
    /\ RxDropped
    /\ UNCHANGED <<db, exited, orch, repoT, counter, sub, cWin, cPc, cSet, cOut, wq,
                   handed, sent, notPipe>>

(***************************************************************************)
(* A function applied to one input: fArgs holds the call, fRet the         *)
(* anyhow::Result it returned.                                             *)
(***************************************************************************)
Pending == [called |-> FALSE, ok |-> FALSE, value |-> <<>>]
Ok(v) == [called |-> TRUE, ok |-> TRUE, value |-> v]
Err == [called |-> TRUE, ok |-> FALSE, value |-> <<>>]

FnIdle == fArgs = [fn |-> "none"] /\ fRet = Pending

\* An action of these specifications: the call of fArgs returns ret.
Returns(ret) == fRet = Pending /\ fRet' = ret /\ UNCHANGED <<fArgs, notFn>>

(***************************************************************************)
(* The git driver (gitimp.rs:94-155).  What a run of the git executable    *)
(* gives: whether the process could be spawned, its exit status and the    *)
(* bytes of its standard output ("LF" is '\n', "NUL" is '\0', "0xFF" a     *)
(* byte that is not UTF-8).                                                *)
(***************************************************************************)
StdoutBytes == {"x", "LF", "NUL", "0xFF"}
ExitStatuses == {0, 1, 128}

Output(spawned, status, stdout) ==
    [spawned |-> spawned, status |-> status, stdout |-> stdout]

Outputs ==
    {Output(FALSE, 0, <<>>)} \cup
    {Output(TRUE, st, out) :
        st \in ExitStatuses,
        out \in UNION {[1..n -> StdoutBytes] : n \in 0..MaxStdout}}

\* str::split: the pieces between the delimiters, empty ones included.
RECURSIVE split(_, _)
split(s, ch) ==
    LET fields == splitn2(s, ch)
    IN IF Len(fields) = 1 THEN fields ELSE <<fields[1]>> \o split(fields[2], ch)

\* Git::git: Err when the process cannot be spawned (output().await?) or its
\* stdout is not UTF-8 (from_utf8(out)?); else the non-empty pieces of stdout.
\* out.status is not read.
git(out, delimiter) ==
    IF ~out.spawned THEN Err
    ELSE IF \E i \in 1..Len(out.stdout) : out.stdout[i] = "0xFF" THEN Err
    ELSE Ok(SelectSeq(split(out.stdout, delimiter), LAMBDA x : x # <<>>))

\* git_pull, git_log, git_show_ref, git_rev_list, git_checkout: the delimiter
\* each hands to Git::git.
Delimiter ==
    [git_pull |-> "LF", git_log |-> "LF", git_show_ref |-> "LF",
     git_rev_list |-> "LF", git_checkout |-> "NUL"]

\* Git::git_clone: Err when create_dir_all fails or, with a remote, when the
\* process cannot be spawned; its Output is dropped unread.
git_clone(mkdir, remote, out) ==
    IF ~mkdir THEN Err
    ELSE IF remote /\ ~out.spawned THEN Err
    ELSE Ok(<<>>)

GitStart ==
    /\ fRet = Pending
    /\ \/ \E fn \in DOMAIN Delimiter, out \in Outputs : fArgs = [fn |-> fn, out |-> out]
       \/ \E mkdir, remote \in BOOLEAN,
             out \in {o \in Outputs : Len(o.stdout) <= 1 /\ o.stdout # <<"0xFF">>} :
            fArgs = [fn |-> "git_clone", mkdir |-> mkdir, remote |-> remote, out |-> out]

GitCall ==
    /\ fArgs.fn \in DOMAIN Delimiter
    /\ Returns(git(fArgs.out, Delimiter[fArgs.fn]))

GitClone ==
    /\ fArgs.fn = "git_clone"
    /\ Returns(git_clone(fArgs.mkdir, fArgs.remote, fArgs.out))

(***************************************************************************)
(* The parser applied to git output (gitimp.rs:158-250, 256-304, 506-543). *)
(***************************************************************************)
\* A line of git log that starts with '<' and misses COMMIT_INFO_REGEXP.
Garbled(hash) == [Header(D0, hash, Bob) EXCEPT !.kind = "garbled"]

\* Checkouts of two commits, each header well-formed or not, with tags v1
\* on the first commit and v2 on the second.
TaggedCheckouts ==
    {Checkout(<<GitCommit(h1, <<>>), GitCommit(h2, <<>>)>>, tgs, <<>>) :
        h1 \in {Header(D0, "h1", Bob), Garbled("h1")},
        h2 \in {Header(D120, "h2", AliceHome), Garbled("h2")},
        tgs \in {<<>>, << <<"v1", "h1">> >>, << <<"v2", "h2">> >>,
                 << <<"v1", "h1">>, <<"v2", "h2">> >>}}

ParseTags ==
    /\ fArgs.fn = "tags"
    /\ LET ret == tags(fArgs.git, AuthorMappings)
       IN Returns(IF ret.ok THEN Ok(ret.tags) ELSE Err)

ParseRange ==
    /\ fArgs.fn = "range_commits"
    /\ LET ret == range_commits(fArgs.git)
       IN Returns(IF ret.ok THEN Ok(ret.windows) ELSE Err)

\* Authors of headers and of create.author_mappings: two with one name, two
\* with one email.
HeaderAuthors == {AliceWork, AliceHome, Bob, Author("al", AliceHome.email)}

MappingLists ==
    UNION {[1..n -> [source : HeaderAuthors, destination : HeaderAuthors]] :
             n \in 0..MaxMappings}

ParseCommitInfo ==
    /\ fArgs.fn = "parse_commit_info"
    /\ LET ret == parse_commit_info(fArgs.line, fArgs.mappings)
       IN Returns(IF ret.ok THEN Ok(ret) ELSE Err)

\* Emails of up to MaxEmail characters, with any number of '@'.
Emails == UNION {[1..n -> {"a", "q", "@", "."}] : n \in 0..MaxEmail}

AuthorDomain ==
    /\ fArgs.fn = "domain"
    /\ Returns(Ok(domain(fArgs.author)))

\* A panic of the called function: it does not return.
Panic == [called |-> TRUE, ok |-> FALSE, value |-> <<"panic">>]

\* Paths of numstat lines: a rename whose extension ends in '}', and a file
\* name that ends in '.'.
PathRename == <<"{", "a", " ", "=", ">", " ", "b", ".", "r", "s", "}">>
PathDot == <<"a", ".">>

\* Well-formed numstat lines: each matches COMMIT_CHANGE_REGEXP.
NumstatLines ==
    {Numstat(c[1], c[2], path) :
        c \in {<<"1", "0">>, <<"-", "-">>, <<"2", "5">>},
        path \in {PathARs, PathBMd, PathMake, PathRename, PathDot}}

\* Parser::parse_commit: the first line that misses its regex makes it
\* return Err, the first path whose extension cannot be normalized makes it
\* panic; else it returns one of the Commits of ParseCommitOutcomes.
ParseCommit ==
    /\ fArgs.fn = "parse_commit"
    /\ LET lines == fArgs.lines
           stops == {i \in 2..Len(lines) :
                        lines[i].kind # "numstat" \/ PathPanics(lines[i].path)}
           first == CHOOSE i \in stops : \A j \in stops : i <= j
       IN IF lines[1].kind # "header" THEN Returns(Err)
          ELSE IF stops = {}
          THEN \E c \in ParseCommitOutcomes(lines, fArgs.mappings) : Returns(Ok(c))
          ELSE IF lines[first].kind # "numstat" THEN Returns(Err)
          ELSE Returns(Panic)

\* Extensions as Path::extension returns them.
Extensions == UNION {[1..n -> {"c", "+", "U+00E9"}] : n \in 0..MaxExt}

\* gitimp.rs:214-217 applied to an extension.
NormalizeExt ==
    /\ fArgs.fn = "normalize"
    /\ Returns(IF NormalizePanics(fArgs.ext) THEN Panic ELSE Ok(Normalize(fArgs.ext)))

(***************************************************************************)
(* GitImpl::calc_range applied to timestamps (gitimp.rs:306-324; the text  *)
(* of BinaryGitter::calc_range, gitter.rs:345-363, is the same).           *)
(***************************************************************************)
\* Durations of half a day, a day and three days; starts at the epoch, in
\* the middle of a day and at the start of tests::test_calc_range; ends up
\* to MaxSpan half durations later, on a boundary or 720 seconds after it.
RangeInputs ==
    {[duration |-> d, start |-> s, end |-> s + k * (d \div 2) + r] :
        d \in {DAY \div 2, DAY, 3 * DAY},
        s \in {0, 50000, 1647432000},
        k \in 0..MaxSpan,
        r \in {0, 720}}

CalcRange ==
    /\ fArgs.fn = "calc_range"
    /\ Returns(Ok(calc_range(fArgs.duration, fArgs.start, fArgs.end)))

(***************************************************************************)
(* ChartRender (render.rs:380-578).  Strings are sequences of characters.  *)
(***************************************************************************)
None == [some |-> FALSE, index |-> 0, column |-> <<>>]
Some(index, column) == [some |-> TRUE, index |-> index, column |-> column]

\* fields[0].parse::<usize>(): Ok for a non-empty string of digits.
IsUsize(s) == s # <<>> /\ \A i \in 1..Len(s) : \E d \in 1..10 : Digits[d] = s[i]

RECURSIVE ParseUsize(_)
ParseUsize(s) ==
    IF s = <<>> THEN 0
    ELSE 10 * ParseUsize(SubSeq(s, 1, Len(s) - 1)) + ParseCount(s[Len(s)])

\* ChartRender::parse_variable.  l and r are the byte offsets of the first
\* "${" and of the first '}' of the whole string.
parse_variable(s) ==
    LET ls == {i \in 1..(Len(s) - 1) : s[i] = "$" /\ s[i + 1] = "{"}
        rs == {i \in 1..Len(s) : s[i] = "}"}
    IN IF ls = {} \/ rs = {} THEN None
       ELSE LET l == (CHOOSE i \in ls : \A j \in ls : i <= j) - 1
                r == (CHOOSE i \in rs : \A j \in rs : i <= j) - 1
            IN IF r > l + 2
               THEN LET fields == splitn2(SubSeq(s, l + 3, r), ":")
                    IN IF Len(fields) <= 1 THEN Some(0, fields[1])
                       ELSE IF IsUsize(fields[1])
                       THEN Some(ParseUsize(fields[1]), fields[2])
                       ELSE None
               ELSE None

\* "${" inside "}"
Var(inside) == <<"$", "{">> \o inside \o <<"}">>

\* Strings handed to parse_variable: every string of up to MaxVar
\* characters, and placeholders with an inside of up to MaxInside
\* characters, alone or between other characters.
VarStrings ==
    UNION {[1..n -> {"$", "{", "}", ":", "0", "f"}] : n \in 0..MaxVar}
    \cup {pre \o Var(inside) \o post :
            pre \in {<<>>, <<"}">>, <<"f">>},
            post \in {<<>>, <<"}">>},
            inside \in UNION {[1..n -> {":", "0", "1", "f"}] : n \in 0..MaxInside}}

ParseVariable ==
    /\ fArgs.fn = "parse_variable"
    /\ Returns(Ok(parse_variable(fArgs.s)))

\* serde_yaml::Value: a string, a number or a sequence.
Str(s) == [t |-> "str", s |-> s, items |-> <<>>]
\* A number is held as its digits.
Num(n) == [t |-> "num", s |-> <<ToString(n)>>, items |-> <<>>]
Sequence(items) == [t |-> "seq", s |-> <<>>, items |-> items]

\* val.as_str().unwrap_or_default()
as_str(val) == IF val.t = "str" THEN val.s ELSE <<>>

\* ColumnMaps of two queries: column f of the first holds a, b, c; column g
\* of the second holds 1.
ColumnF == <<"f">>
ColumnG == <<"g">>
Cms ==
    << [c \in {ColumnF} |-> <<Str(<<"a">>), Str(<<"b">>), Str(<<"c">>)>>],
       [c \in {ColumnG} |-> <<Num(1)>>] >>

\* ChartRender.colors: the palettes by name.
Colors ==
    [k \in {<<"p">>, <<"q">>} |->
        IF k = <<"p">> THEN <<Str(<<"r">>), Str(<<"b">>)>> ELSE <<Str(<<"w">>)>>]

\* The loop of handle_labels_field and of the data key of
\* handle_datasets_field (render.rs:505-519, 539-553): what one item adds to
\* items.
Resolved(item, cms) ==
    LET var == parse_variable(as_str(item))
    IN IF ~var.some THEN <<item>>
       ELSE IF var.index < Len(cms) /\ var.column \in DOMAIN cms[var.index + 1]
       THEN cms[var.index + 1][var.column]
       ELSE <<>>

handle_labels_field(val, cms) ==
    IF val.t # "seq" THEN val
    ELSE Sequence(Flatten([i \in 1..Len(val.items) |-> Resolved(val.items[i], cms)]))

\* handle_colors_field: the values that replace val, none when it returns
\* None.  rng.gen() picks any key for "random".
handle_colors_field(val) ==
    LET var == parse_variable(as_str(val))
    IN IF ~var.some THEN {}
       ELSE IF var.column = <<"r", "a", "n", "d", "o", "m">>
       THEN {Colors[k] : k \in DOMAIN Colors}
       ELSE IF var.column \in DOMAIN Colors THEN {Colors[var.column]}
       ELSE {}

\* handle_datasets_field on datasets that are mappings with the keys data
\* and backgroundColor: the sequences it can leave.
handle_datasets_field(datasets, cms) ==
    {out \in [1..Len(datasets) -> [data : {handle_labels_field(datasets[i].data, cms) :
                                             i \in 1..Len(datasets)},
                                   backgroundColor :
                                       {datasets[i].backgroundColor : i \in 1..Len(datasets)}
                                       \cup {Sequence(Colors[k]) : k \in DOMAIN Colors}]] :
        \A i \in 1..Len(datasets) :
            /\ out[i].data = handle_labels_field(datasets[i].data, cms)
            /\ LET colors == handle_colors_field(datasets[i].backgroundColor)
               IN IF colors = {} THEN out[i].backgroundColor = datasets[i].backgroundColor
                  ELSE \E v \in colors : out[i].backgroundColor = Sequence(v)}

\* Elements of labels and of data: placeholders that resolve against Cms,
\* placeholders whose index is out of range or whose column is absent, and
\* elements that are no placeholders.
Items ==
    {Str(Var(ColumnF)), Str(Var(<<"1", ":">> \o ColumnG)), Str(Var(ColumnG)),
     Str(Var(<<"2", ":">> \o ColumnF)), Str(<<"x">>), Num(7)}

\* Values of labels and of data: a sequence of up to MaxItems elements, or a
\* placeholder alone.
Fields ==
    {Sequence(items) : items \in UNION {[1..n -> Items] : n \in 0..MaxItems}}
    \cup {Str(Var(ColumnF))}

BackgroundColors ==
    {Str(Var(<<"r", "a", "n", "d", "o", "m">>)), Str(Var(<<"q">>)), Str(Var(<<"z">>)),
     Str(<<"r">>)}

HandleLabels ==
    /\ fArgs.fn = "handle_labels_field"
    /\ Returns(Ok(handle_labels_field(fArgs.val, fArgs.cms)))

HandleDatasets ==
    /\ fArgs.fn = "handle_datasets_field"
    /\ \E out \in handle_datasets_field(fArgs.val, fArgs.cms) : Returns(Ok(out))

\* hanlde_data_section on a mapping with the keys labels and datasets.
HandleDataSection ==
    /\ fArgs.fn = "hanlde_data_section"
    /\ \E out \in handle_datasets_field(fArgs.datasets, fArgs.cms) :
         Returns(Ok([labels |-> handle_labels_field(fArgs.labels, fArgs.cms),
                     datasets |-> out]))

\* serde_yaml::Value::Mapping, and the data sections of a chart config: a
\* mapping, and values as_mapping_mut() returns None for.
Mapping(items) == [t |-> "map", s |-> <<>>, items |-> items]

DataSections ==
    {Mapping(<<>>), Mapping(<<Sequence(<<Str(Var(ColumnF))>>)>>), Sequence(<<>>),
     Sequence(<<Str(<<"x">>)>>), Str(<<"x">>), Num(7)}

\* What File::create and Tera::render_str can do.
FileOutcomes == {"written", "create fails", "render fails"}

Failed(what) == [called |-> TRUE, ok |-> FALSE, value |-> what]

Mismatched == Failed(<<"Mismatched: data section should be mappings type">>)

\* ChartRender::render_chart.  The value names the file when one was created.
render_chart(data, cms, io) ==
    IF cms = <<>> THEN Ok(<<>>)
    ELSE IF data.t # "map" THEN Mismatched
    ELSE IF io = "create fails" THEN Failed(<<"File::create">>)
    ELSE IF io = "render fails" THEN Failed(<<"Tera::render_str", "dest">>)
    ELSE Ok(<<"dest">>)

\* ChartRender::render for one query: one ColumnMap per statement, then
\* render_chart.
RenderChart ==
    /\ fArgs.fn = "render_chart"
    /\ Returns(render_chart(fArgs.data, SubSeq(Cms, 1, fArgs.statements), fArgs.io))

(***************************************************************************)
(* The scalar functions (executor.rs:55-433, query_functions.rs:56-309)   *)
(* and TimeInputAccumulator::update, each applied to one row.              *)
(***************************************************************************)
\* The names registered from UDFS by each of the two modules; time_format of
\* query_functions.rs takes two arguments and is left out.
UDFS ==
    [executor |-> {"year", "month", "weekday", "weeknum", "hour", "period",
                   "timestamp", "timezone", "duration", "timestamp_rfc3339"},
     query_functions |-> {"year", "month", "weekday", "hour", "timestamp",
                          "timezone", "duration"}]

\* The functions whose argument is an Int64 unix timestamp.
OfTimestamp == {"duration", "timestamp_rfc3339"}

\* DateTime::parse_from_rfc3339, parse_from_rfc2822: the fields of a string
\* that parses.
parse_from_rfc3339(s) == IF s.format = "" THEN [ok |-> FALSE] ELSE [ok |-> TRUE, t |-> s.at]

\* The string the pipeline persists for a datetime that does not parse.
EmptyString == to_rfc339(Dt(1970, 13, 1, 0, 0, 0, 0))

TimeStrings == {to_rfc339(Rows[i]) : i \in 1..Len(Rows)} \cup {EmptyString}

\* One row of the array a function returns, or the panic of its closure.
Value(v) == [kind |-> "value", v |-> v]
Null == [kind |-> "null", v |-> <<>>]
Panics == [kind |-> "panic", v |-> <<>>]

\* humantime::format_duration of a std Duration below one month.
format_duration(t) ==
    LET part(n, unit) == IF n = 0 THEN <<>> ELSE <<ToString(n) \o unit>>
    IN IF t = 0 THEN <<"0s">>
       ELSE part(t \div DAY, "days") \o part((t % DAY) \div 3600, "h")
                \o part((t % 3600) \div 60, "m") \o part(t % 60, "s")

Weekdays == <<"Mon", "Tue", "Wed", "Thu", "Fri", "Sat", "Sun">>

num_days_from_monday(t) == (DaysFromCivil(t.y, t.mo, t.d) + 3) % 7

\* The closure of udf_<name> on one row, run when the clock reads now.
udf(variant, name, x, now) ==
    IF name = "duration"
    THEN LET t == now - x
         IN IF t < 0 THEN Panics ELSE Value(format_duration(t))
    ELSE IF name = "timestamp_rfc3339"
    THEN LET c == CivilFromDays(x \div DAY)
         IN Value(<<ToString(c[1]), Pad2(c[2]), Pad2(c[3]), Pad2((x % DAY) \div 3600),
                    Pad2((x % 3600) \div 60), Pad2(x % 60), "+00:00">>)
    ELSE LET parsed == parse_from_rfc3339(x)
         IN IF ~parsed.ok
            THEN IF variant = "executor" THEN Null ELSE Panics
            ELSE LET t == parsed.t
                 IN Value(CASE name = "year" -> <<ToString(t.y)>>
                            [] name = "month" -> <<ToString(t.mo)>>
                            [] name = "weekday" -> <<Weekdays[num_days_from_monday(t) + 1]>>
                            [] name = "weeknum" -> <<ToString(num_days_from_monday(t))>>
                            [] name = "hour" -> <<ToString(t.h)>>
                            [] name = "period" ->
                                 <<IF t.h <= 7 THEN "Midnight"
                                   ELSE IF t.h <= 11 THEN "Morning"
                                   ELSE IF t.h <= 18 THEN "Afternoon"
                                   ELSE "Evening">>
                            [] name = "timestamp" -> <<ToString(Timestamp(t))>>
                            [] name = "timezone" -> <<ToString(t.off)>>)

\* TimeInputAccumulator::update on one value: the timestamp it pushes.
update(v) ==
    LET parsed == parse_from_rfc3339(v)
    IN IF parsed.ok THEN Value(<<ToString(Timestamp(parsed.t))>>) ELSE Panics

UdfStart ==
    /\ fRet = Pending
    /\ \/ \E variant \in DOMAIN UDFS, v \in TimeStrings, at \in 0..MaxClock :
            \E name \in UDFS[variant] \ OfTimestamp :
                fArgs = [fn |-> "udf", variant |-> variant, name |-> name,
                         x |-> [str |-> v, ts |-> 0], first |-> at, second |-> at]
       \/ \E variant \in DOMAIN UDFS, x \in 0..MaxEpoch, first, second \in 0..MaxClock :
            \E name \in UDFS[variant] \cap OfTimestamp :
                /\ first <= second
                /\ fArgs = [fn |-> "udf", variant |-> variant, name |-> name,
                            x |-> [str |-> EmptyString, ts |-> x],
                            first |-> first, second |-> second]
       \/ \E variant \in DOMAIN UDFS, v \in TimeStrings :
            fArgs = [fn |-> "update", variant |-> variant, v |-> v]

\* A query evaluates one function on one argument value at two moments; a
\* panic of the closure aborts the query.
Udf ==
    /\ fArgs.fn = "udf"
    /\ LET x == IF fArgs.name \in OfTimestamp THEN fArgs.x.ts ELSE fArgs.x.str
           a == udf(fArgs.variant, fArgs.name, x, fArgs.first)
           b == udf(fArgs.variant, fArgs.name, x, fArgs.second)
       IN Returns(IF Panics \in {a, b} THEN Panic ELSE Ok(<<a, b>>))

Update ==
    /\ fArgs.fn = "update"
    /\ Returns(IF update(fArgs.v) = Panics THEN Panic ELSE Ok(<<update(fArgs.v)>>))

(***************************************************************************)
(* The writers of the two sinks under a run of writes: CsvWriter::write of *)
(* record.rs (386-417) on the five files, and the loop of the sink task of *)
(* record_csv.rs (104-116), whose one csv::Writer and local n are held as  *)
(* the writer of its file.                                                 *)
(***************************************************************************)
\* record_csv.rs:109-113: the body of `while let Some(record) = rx.recv()`.
\* n is not set back after the flush.
persist_write(w, record) ==
    LET n == [w EXCEPT !.curr = w.curr + 1, !.buf = w.buf (+) SetToBag({record})]
    IN IF n.curr >= FLUSH_SIZE THEN flush(n) ELSE n

\* The number of records a writer took so far.
Written(w) == BagCardinality(w.buf (+) w.disk)

WriterStart ==
    /\ fRet = Pending
    /\ fArgs \in {[fn |-> "CsvWriter::write"], [fn |-> "persist_records"]}

\* One call of CsvWriter::write on the writer of file f.
CsvWrite(f) ==
    /\ fArgs.fn = "CsvWriter::write"
    /\ Written(wtr[f]) < MaxWrites
    /\ wtr' = [wtr EXCEPT ![f] = write(@, [type |-> f, n |-> Written(@)])]
    /\ UNCHANGED <<db, exited, faults, orch, repoT, counter, sub, cWin, cPc, cSet, cOut,
                   wq, chan, rxAlive, sink, handed, sent, notPipe>>

\* One turn of the loop of record_csv.rs, which writes one file.
PersistWrite ==
    /\ fArgs.fn = "persist_records"
    /\ Written(wtr["commit"]) < MaxWrites
    /\ wtr' = [wtr EXCEPT !["commit"] = persist_write(@, [type |-> "commit", n |-> Written(@)])]
    /\ UNCHANGED <<db, exited, faults, orch, repoT, counter, sub, cWin, cPc, cSet, cOut,
                   wq, chan, rxAlive, sink, handed, sent, notPipe>>

(***************************************************************************)
(* Specifications.                                                         *)
(***************************************************************************)
NextStreak == CalcLongest

InitStreak == StreakStart /\ AccIdle /\ PipeIdle /\ FnIdle

SpecStreak == InitStreak /\ [][NextStreak]_vars

InitAcc == StreakIdle /\ AccStart /\ PipeIdle /\ FnIdle

SpecAcc == InitAcc /\ [][NextAcc]_vars

\* ---- GitImpl::commits on its own, called for every repo of a database.
CommitsStart ==
    \E d \in DbNames :
        PipeAt(d, [t \in TaskIds |->
                     IF t[2] = "commits" THEN Task("range", <<>>, 0) ELSE Unspawned])

NextCommits ==
    \/ \E r \in RepoIds : CommitsRange(r)
    \/ \E r \in RepoIds : GitFails(<<r, "commits">>)
    \/ \E r \in RepoIds, w \in 1..MaxWindows : WinLog(r, w)
    \/ \E r \in RepoIds, w \in 1..MaxWindows : WinLogFails(r, w)
    \/ \E r \in RepoIds, w \in 1..MaxWindows : WinInsert(r, w)
    \/ \E r \in RepoIds : CommitsCollect(r)

InitCommits == StreakIdle /\ AccIdle /\ CommitsStart /\ FnIdle

SpecCommits == InitCommits /\ [][NextCommits]_vars

\* ---- serialize_records
Next ==
    \/ OrchSpawn
    \/ OrchCloneFails
    \/ OrchJoin
    \/ OrchDropTx
    \/ OrchJoinSink
    \/ \E r \in RepoIds : RepoCheckout(r)
    \/ \E r \in RepoIds : RepoCheckoutFails(r)
    \/ \E r \in RepoIds : RepoJoin(r)
    \/ \E r \in RepoIds : RepoCount(r)
    \/ \E r \in RepoIds : SnapshotGit(r)
    \/ \E r \in RepoIds : TagsGit(r)
    \/ \E t \in TaskIds : GitFails(t)
    \/ \E t \in TaskIds : Send(t)
    \/ \E r \in RepoIds : CommitsHash(r)
    \/ \E r \in RepoIds : CommitsRange(r)
    \/ \E r \in RepoIds, w \in 1..MaxWindows : WinLog(r, w)
    \/ \E r \in RepoIds, w \in 1..MaxWindows : WinLogFails(r, w)
    \/ \E r \in RepoIds, w \in 1..MaxWindows : WinInsert(r, w)
    \/ \E r \in RepoIds : CommitsCollect(r)
    \/ \E r \in RepoIds : Dispatch(r)
    \/ \E r \in RepoIds : JoinWorker(r)
    \/ \E r \in RepoIds, i \in Workers : WorkerRecv(r, i)
    \/ \E r \in RepoIds, i \in Workers : WorkerGitFails(r, i)
    \/ \E r \in RepoIds, i \in Workers : WorkerClosed(r, i)
    \/ \E r \in RepoIds, i \in Workers : WorkerSend(r, i)
    \/ SinkOpen
    \/ SinkWrite
    \/ SinkClose
    \/ SinkFails

Init == StreakIdle /\ AccIdle /\ PipeStart /\ FnIdle

Spec == Init /\ [][Next]_vars

\* Every task is polled by the runtime as long as it can take a step, and no
\* action runs for ever, so the run goes on while any task can step.
FairSpec == Spec /\ WF_vars(Next)

NextGit == GitCall \/ GitClone

InitGit == StreakIdle /\ AccIdle /\ PipeIdle /\ GitStart

SpecGit == InitGit /\ [][NextGit]_vars

ParserStart ==
    /\ fRet = Pending
    /\ \/ \E g \in TaggedCheckouts : fArgs = [fn |-> "tags", git |-> g]
       \/ \E g \in {c \in TaggedCheckouts : c.tags = <<>>} :
            fArgs = [fn |-> "range_commits", git |-> g]
       \/ \E a \in HeaderAuthors, ms \in MappingLists :
            fArgs = [fn |-> "parse_commit_info", line |-> Header(D0, "h1", a),
                     mappings |-> ms]
       \/ fArgs = [fn |-> "parse_commit_info", line |-> Garbled("h1"),
                   mappings |-> AuthorMappings]
       \/ \E email \in Emails : fArgs = [fn |-> "domain", author |-> Author("bob", email)]
       \/ \E rows \in UNION {[1..n -> NumstatLines] : n \in 0..MaxLines} :
            fArgs = [fn |-> "parse_commit",
                     lines |-> <<Header(D0, "h1", AliceHome)>> \o rows,
                     mappings |-> AuthorMappings]
       \/ \E row \in {Garbled("h2"), Numstat("1", "0", PathARs),
                       Numstat("1", "0", <<"a", ".", "U+00E9">>)} :
            fArgs = [fn |-> "parse_commit",
                     lines |-> <<Header(D0, "h1", Bob), row, Numstat("1", "0", PathDot)>>,
                     mappings |-> AuthorMappings]
       \/ \E ext \in Extensions : fArgs = [fn |-> "normalize", ext |-> ext]

NextParser ==
    ParseTags \/ ParseRange \/ ParseCommitInfo \/ AuthorDomain \/ ParseCommit \/ NormalizeExt

InitParser == StreakIdle /\ AccIdle /\ PipeIdle /\ ParserStart

SpecParser == InitParser /\ [][NextParser]_vars

RangeStart ==
    /\ fRet = Pending
    /\ \E in \in RangeInputs :
        fArgs = [fn |-> "calc_range", duration |-> in.duration, start |-> in.start,
                 end |-> in.end]

NextRange == CalcRange

InitRange == StreakIdle /\ AccIdle /\ PipeIdle /\ RangeStart

SpecRange == InitRange /\ [][NextRange]_vars

RenderStart ==
    /\ fRet = Pending
    /\ \/ \E s \in VarStrings : fArgs = [fn |-> "parse_variable", s |-> s]
       \/ \E val \in Fields, n \in 1..Len(Cms) :
            fArgs = [fn |-> "handle_labels_field", val |-> val, cms |-> SubSeq(Cms, 1, n)]
       \/ \E data \in Fields, color \in BackgroundColors, n \in 1..Len(Cms) :
            fArgs = [fn |-> "handle_datasets_field",
                     val |-> <<[data |-> data, backgroundColor |-> color]>>,
                     cms |-> SubSeq(Cms, 1, n)]
       \/ \E labels, data \in {f \in Fields : f.t = "str" \/ Len(f.items) <= 1},
             color \in BackgroundColors :
            fArgs = [fn |-> "hanlde_data_section", labels |-> labels,
                     datasets |-> <<[data |-> data, backgroundColor |-> color]>>,
                     cms |-> SubSeq(Cms, 1, 1)]
       \/ \E data \in DataSections, n \in 0..Len(Cms), io \in FileOutcomes :
            fArgs = [fn |-> "render_chart", data |-> data, statements |-> n, io |-> io]

NextRender ==
    ParseVariable \/ HandleLabels \/ HandleDatasets \/ HandleDataSection \/ RenderChart

InitRender == StreakIdle /\ AccIdle /\ PipeIdle /\ RenderStart

SpecRender == InitRender /\ [][NextRender]_vars

NextWriter == (\E f \in Files : CsvWrite(f)) \/ PersistWrite

InitWriter == StreakIdle /\ AccIdle /\ PipeIdle /\ WriterStart

SpecWriter == InitWriter /\ [][NextWriter]_vars

NextUdf == Udf \/ Update

InitUdf == StreakIdle /\ AccIdle /\ PipeIdle /\ UdfStart

SpecUdf == InitUdf /\ [][NextUdf]_vars

(***************************************************************************)
(* Runs of a slice, stated independently of the sweep.                     *)
(***************************************************************************)
DayOf(x, ratio) == TruncDiv(x, ratio)

Linked(data, ratio, k) ==
    (DayOf(data[k + 1], ratio) - DayOf(data[k], ratio)) \in {0, 1}

\* <<i, j>>: data[i..j] is a run that cannot be extended on either side.
MaximalRuns(data, ratio) ==
    {ij \in (1..Len(data)) \X (1..Len(data)) :
        /\ ij[1] <= ij[2]
        /\ \A k \in ij[1]..(ij[2] - 1) : Linked(data, ratio, k)
        /\ (ij[1] = 1 \/ ~Linked(data, ratio, ij[1] - 1))
        /\ (ij[2] = Len(data) \/ ~Linked(data, ratio, ij[2]))}

RunElems(ij) == ij[2] - ij[1] + 1
RunDays(data, ratio, ij) == DayOf(data[ij[2]], ratio) - DayOf(data[ij[1]], ratio) + 1

LongestRunElems(data, ratio) == SetMax({RunElems(ij) : ij \in MaximalRuns(data, ratio)})
LongestRunDays(data, ratio) ==
    SetMax({RunDays(data, ratio, ij) : ij \in MaximalRuns(data, ratio)})

BestRuns(data, ratio) ==
    {ij \in MaximalRuns(data, ratio) :
        RunDays(data, ratio, ij) = LongestRunDays(data, ratio)}

EarliestBestRun(data, ratio) ==
    CHOOSE ij \in BestRuns(data, ratio) : \A o \in BestRuns(data, ratio) : ij[1] <= o[1]

StreakDone == sRet # <<>>

\* C7 as stated: with ratio 1 the count returned by calc_longest is the number
\* of values in the longest maximal run of values whose consecutive
\* differences are 0 or 1.
C7_CountIsRunLength ==
    (StreakDone /\ sRatio = 1) => sRet[1] = LongestRunElems(sData, 1)

\* C7 amended: with ratio 1 the count returned by calc_longest is the largest
\* span last - first + 1 (the number of distinct values) of a maximal run of
\* values whose consecutive differences are 0 or 1; equal values add nothing.
C7_CountIsRunDays ==
    (StreakDone /\ sRatio = 1) => sRet[1] = LongestRunDays(sData, 1)

\* calc_longest has run with ratio 1 on a slice with a repeated value and
\* more than one maximal run, one of them several days long.
C7_Witness ==
    /\ StreakDone /\ sRatio = 1
    /\ \E k \in 1..(Len(sData) - 1) : sData[k] = sData[k + 1]
    /\ Cardinality(MaximalRuns(sData, 1)) >= 2
    /\ sRet[1] >= 2

\* C8: when several maximal runs share the maximal day count, calc_longest
\* returns the first and last value of the earliest of them.
C8_TieKeepsEarliest ==
    (StreakDone /\ Cardinality(BestRuns(sData, sRatio)) >= 2) =>
        LET ij == EarliestBestRun(sData, sRatio)
        IN sRet = <<RunDays(sData, sRatio, ij), sData[ij[1]], sData[ij[2]]>>

\* calc_longest has run on a slice with three tied best runs: the second is
\* closed by a later gap and the third is the final run of the slice.
C8_Witness ==
    /\ StreakDone
    /\ Cardinality(BestRuns(sData, sRatio)) >= 3
    /\ \E ij \in BestRuns(sData, sRatio) : ij[2] = Len(sData)
    /\ sRet[2] = sData[1]

(***************************************************************************)
(* The streak aggregates.                                                  *)
(***************************************************************************)
\* The timestamps of the whole column, and the triple of their sorted list.
InputTimestamps == [i \in 1..Len(aInput) |-> Timestamp(aInput[i])]
InputTriple == calc_longest(sort_unstable(InputTimestamps), DAY)

\* Every row was handed out, every partial state was merged into the final
\* accumulator and nothing was pushed into it since its last merge.
MergePhaseDone == aPool = <<>> /\ aMerged = Parts /\ aLastOp = "merge"

\* C9: after the merge phase the component held by the final accumulator is
\* that of the triple of the sorted column, whatever rows went to which
\* partial accumulator and in whatever order their states were merged.
C9_MergeDeterministic ==
    MergePhaseDone => aN[Final] = InputTriple[aIndex + 1]

\* The merge phase has ended for the five-row column with rows in every
\* partial accumulator, merged in descending order of partition.
C9_Witness ==
    /\ MergePhaseDone
    /\ Len(aInput) = Len(Rows)
    /\ \A p \in Parts : aData[p] # <<>>
    /\ aData[Final] # aData[1] \o aData[2]
    /\ aData[Final] = sort_unstable(InputTimestamps)

\* C10 as stated: active_longest_start and active_longest_end return the
\* first and the last day of the longest run as YYYY-MM-DD with no day
\* added, in executor.rs and in query_functions.rs alike; for the four test
\* datetimes start is 2021-10-12 and end is 2021-10-13.
C10_NoDayAdded ==
    (MergePhaseDone /\ aOut.kind = "Utf8" /\ Len(aInput) >= NumTestRows) =>
        /\ aOut.v = FormatYmd(InputTriple[aIndex + 1])
        /\ aInput = SubSeq(Rows, 1, NumTestRows) =>
              aOut.v = (IF aIndex = 1 THEN "2021-10-12" ELSE "2021-10-13")

(***************************************************************************)
(* The pipeline.                                                           *)
(***************************************************************************)
\* How many elements of bag B, with their copies, lie in the set S.
BagCount(B, S) == BagCardinality([x \in S \cap DOMAIN B |-> B[x]])

\* The fields a row shares with the commit it was built from.
CommitKey(c) ==
    <<c.repo, c.hash, to_rfc339(c.datetime), c.author.name, c.author.email>>
RowKey(row) ==
    <<row.repo_name, row.hash, row.datetime, row.author_name, row.author_email>>

Disk(f) == wtr[f].disk
AllDisk ==
    Disk("commit") (+) Disk("change") (+) Disk("tag") (+) Disk("snapshot") (+) Disk("active")

\* The Commits handed to send_commit_records that carry key k, and the
\* changes they hold between them.
HandedWith(k) == {c \in DOMAIN handed : CommitKey(c) = k}
HandedCommits(k) == BagCount(handed, HandedWith(k))
HandedChanges(k) ==
    BagCardinality([c \in {c \in HandedWith(k) : c.changes # <<>>} |->
                        handed[c] * Len(c.changes)])
RowsWith(f, k) == BagCount(Disk(f), {row \in DOMAIN Disk(f) : RowKey(row) = k})

SinkDone == sink = "ok"

\* C1: once the sink has ended with Ok, every file holds rows of its own
\* variant only; for every Commit handed to send_commit_records commit.csv
\* holds one row and change.csv |changes| rows with its repo_name, hash,
\* datetime and author; every change row is a change of such a Commit; and
\* neither file holds a row more.
C1_CommitRoundTrip ==
    SinkDone =>
        /\ \A f \in Files : \A row \in DOMAIN Disk(f) : row.type = f
        /\ \A c \in DOMAIN handed :
              /\ RowsWith("commit", CommitKey(c)) = HandedCommits(CommitKey(c))
              /\ RowsWith("change", CommitKey(c)) = HandedChanges(CommitKey(c))
        /\ \A row \in DOMAIN Disk("change") :
              \E c \in HandedWith(RowKey(row)) : \E i \in 1..Len(c.changes) :
                 c.changes[i] = FileExtChange(row.ext, row.insertion, row.deletion)
        /\ \A row \in DOMAIN Disk("commit") : HandedWith(RowKey(row)) # {}
        /\ BagCardinality(Disk("commit")) = BagCardinality(handed)

\* The sink has ended with Ok after producers of two kinds interleaved: a
\* commit with two changes went through it, and so did a tag.
C1_Witness ==
    /\ SinkDone
    /\ \E c \in DOMAIN handed : Len(c.changes) = 2
    /\ BagCardinality(Disk("change")) >= 2
    /\ Disk("tag") # EmptyBag

ReturnedOk == orch.pc = "ok"

\* C2 as stated: after serialize_records has returned Ok every row of
\* change.csv shares its (repo_name, hash) with exactly one row of
\* commit.csv.
C2_ChangeHasOneCommit ==
    ReturnedOk =>
        \A row \in DOMAIN Disk("change") :
            BagCount(Disk("commit"),
                     {cr \in DOMAIN Disk("commit") :
                        cr.repo_name = row.repo_name /\ cr.hash = row.hash}) = 1

\* C3 as stated: the Vec commits() returns holds at most one Commit per
\* commit hash.
C3_OnePerHash ==
    \A r \in RepoIds :
        cOut[r].returned =>
            \A i, j \in 1..Len(cOut[r].vec) :
                cOut[r].vec[i].hash = cOut[r].vec[j].hash => i = j

AllTasksEnded ==
    /\ \A r \in RepoIds : repoT[r].pc \in Ended
    /\ \A t \in TaskIds : sub[t].pc \in Ended \cup {"unspawned"}

\* C4: serialize_records joins the sink only after it has joined every repo
\* task and dropped its tx; when it returns Ok the sink and every repo task
\* have ended with Ok; and under fair scheduling every call returns (or the
\* process exits), so no producer waits on the channel for ever and the
\* sink does not wait for a sender that is still held.
C4_Terminates ==
    /\ [](orch.pc = "join_sink" =>
            ~orch.tx /\ \A r \in RepoIds : repoT[r].pc = "ok")
    /\ [](ReturnedOk => SinkDone /\ ~SendersAlive)
    /\ <>(exited \/ orch.pc \in Ended)

\* serialize_records has returned Ok after more records went through the
\* channel than it holds, on a run of two repos.
C4_Witness ==
    /\ ReturnedOk
    /\ Len(Repos) = 2
    /\ BagCardinality(sent) > BUFFER_SIZE

\* C5: when serialize_records has returned Ok no writer buffers a record,
\* the channel is empty, and the files hold exactly the records whose send
\* returned Ok.
C5_FinalFlush ==
    ReturnedOk =>
        /\ \A f \in Files : wtr[f].buf = EmptyBag
        /\ chan = <<>>
        /\ AllDisk = sent

\* serialize_records has returned Ok with writers whose count of records
\* since their last flush is not 0: what they held went out in the final
\* flush.
C5_Witness ==
    /\ ReturnedOk
    /\ wtr["active"].curr = 1
    /\ wtr["commit"].curr = 1
    /\ Disk("active") # EmptyBag
    /\ Disk("change") # EmptyBag

\* C6: once the receiver is dropped no send puts a record into the channel
\* or counts as sent and no writer changes; a send that finds the receiver
\* dropped ends its subtask with Ok (a worker goes back to take its next
\* hash); and from then on every subtask and repo task comes to its end,
\* unless the process exits.
C6_Cancellation ==
    /\ [][~rxAlive => chan' = chan /\ sent' = sent /\ wtr' = wtr]_vars
    /\ [][\A t \in TaskIds :
            (sub[t].pc = "send" /\ ~rxAlive /\ sub'[t] # sub[t]) =>
                sub'[t].pc = (IF t[2] \in Workers THEN "recv" ELSE "ok")]_vars
    /\ (~rxAlive ~> (exited \/ AllTasksEnded))

\* The sink failed while a commits subtask had records left to send: the
\* subtask ended with Ok, every repo task ended with Ok and the call
\* returned the sink's error.
C6_Witness ==
    /\ sink = "err"
    /\ orch.pc = "err"
    /\ \A r \in RepoIds : repoT[r].pc = "ok"
    /\ \A r \in RepoIds : sub[<<r, "commits">>].pc = "ok"
    /\ BagCardinality(handed) >= 2
    /\ BagCardinality(Disk("commit")) < BagCardinality(handed)

(***************************************************************************)
(* Claims about the git driver, the parser and the renderer.               *)
(***************************************************************************)
\* The git process of the call ran and exited with a non-zero status.
ExitedNonZero == fArgs.out.spawned /\ fArgs.out.status # 0

\* C11: whenever the spawned git process exits with a non-zero status,
\* Git::git and the clone, pull, log, show-ref, rev-list and checkout wrappers
\* return an error instead of Ok with the captured standard output.
C11_NonZeroExitIsErr ==
    (fRet.called /\ ExitedNonZero /\ (fArgs.fn = "git_clone" => fArgs.remote)) => ~fRet.ok

\* The tags of a checkout whose commit has a header that parses, in the
\* order of git show-ref.
ParsableTags(g) ==
    LET header(t) == g.history[CHOOSE i \in TagCommit(g, t[2]) : TRUE].header
        kept == SelectSeq(g.tags, LAMBDA t : header(t).kind = "header")
    IN [i \in 1..Len(kept) |-> [tag |-> kept[i][1], datetime |-> header(kept[i]).datetime]]

\* C12: a commit header that fails its regex drops only the offending commit
\* or tag: tags() returns Ok with every other tag, and the partition of
\* commits() returns Ok as long as the history holds commits.
C12_ParseErrorsRecovered ==
    /\ (fRet.called /\ fArgs.fn = "tags") =>
            fRet.ok /\ fRet.value = ParsableTags(fArgs.git)
    /\ (fRet.called /\ fArgs.fn = "range_commits") => fRet.ok

\* The call is parse_commit_info on a well-formed header, and has returned.
ParsedHeader ==
    fRet.called /\ fArgs.fn = "parse_commit_info" /\ fArgs.line.kind = "header"

\* The mappings whose source is exactly the (name, email) of the header.
Matching ==
    {i \in 1..Len(fArgs.mappings) :
        /\ fArgs.mappings[i].source.name = fArgs.line.name
        /\ fArgs.mappings[i].source.email = fArgs.line.email}

\* C13: parse_commit_info yields the destination of the first mapping whose
\* source equals the (name, email) of the header, applied once, and the
\* author of the header unchanged when no source equals it.
C13_FirstMatchOnce ==
    ParsedHeader =>
        /\ fRet.ok
        /\ Matching = {} => fRet.value.author = Author(fArgs.line.name, fArgs.line.email)
        /\ \A i \in Matching :
              (\A j \in Matching : i <= j) =>
                  fRet.value.author = fArgs.mappings[i].destination

\* A header whose author matches the first mapping, whose destination is the
\* source of the second: the first destination is returned.
C13_Witness ==
    /\ ParsedHeader
    /\ Matching = {1}
    /\ Len(fArgs.mappings) = 2
    /\ fArgs.mappings[2].source = fArgs.mappings[1].destination
    /\ fArgs.mappings[2].destination # fArgs.mappings[1].destination
    /\ fRet.value.author = fArgs.mappings[1].destination

\* The part of an email after its rightmost '@', empty when it has none.
AfterRightmostAt(email) ==
    LET ats == {i \in 1..Len(email) : email[i] = "@"}
    IN IF ats = {} THEN <<>>
       ELSE SubSeq(email, (CHOOSE i \in ats : \A j \in ats : j <= i) + 1, Len(email))

\* C14: Author::domain returns the substring of the email after its
\* rightmost '@', and the empty string when the email contains no '@'.
C14_DomainAfterRightmostAt ==
    (fRet.called /\ fArgs.fn = "domain") =>
        fRet.value = AfterRightmostAt(fArgs.author.email)

\* The call is parse_commit on a header followed by well-formed numstat
\* lines, and is over.
ParsedWellFormed ==
    /\ fRet.called
    /\ fArgs.fn = "parse_commit"
    /\ fArgs.lines[1].kind = "header"
    /\ \A i \in 2..Len(fArgs.lines) : fArgs.lines[i].kind = "numstat"

\* C15: for a header followed by n well-formed numstat lines, parse_commit
\* returns change_files = n, one FileExtChange per distinct normalized
\* extension, and insertion and deletion sums whose totals are the sums over
\* all lines, a field of '-' counting as zero.
C15_ChangeFilesAndSums ==
    ParsedWellFormed =>
        LET rows == SubSeq(fArgs.lines, 2, Len(fArgs.lines))
            commit == fRet.value
            count(field) == IF field = "-" THEN 0 ELSE ParseCount(field)
        IN /\ fRet.ok
           /\ commit.change_files = Len(rows)
           /\ \A i, j \in 1..Len(commit.changes) :
                 commit.changes[i].ext = commit.changes[j].ext => i = j
           /\ {commit.changes[i].ext : i \in 1..Len(commit.changes)}
                 = {NormalizedExt(rows[i].path) : i \in 1..Len(rows)}
           /\ SeqSum([i \in 1..Len(commit.changes) |-> commit.changes[i].insertion])
                 = SeqSum([i \in 1..Len(rows) |-> count(rows[i].ins)])
           /\ SeqSum([i \in 1..Len(commit.changes) |-> commit.changes[i].deletion])
                 = SeqSum([i \in 1..Len(rows) |-> count(rows[i].del)])

\* C16: the normalization of an extension, applied to an extension it
\* returned, returns it unchanged.
C16_NormalizeIdempotent ==
    (fRet.called /\ fArgs.fn = "normalize" /\ fRet.ok) =>
        ~NormalizePanics(fRet.value) /\ Normalize(fRet.value) = fRet.value

\* calc_range has returned; full is the number of whole durations between
\* start and end.
RangeReturned == fRet.called /\ fArgs.fn = "calc_range"
FullWindows == (fArgs.end - fArgs.start) \div fArgs.duration

\* C17: for duration > 0 and start <= end, calc_range returns
\* floor((end - start) / duration) + 1 windows: a full window for each whole
\* duration, then the window from the last boundary to end; the since of
\* each window is the before of the one before it.
C17_WindowsCoverRange ==
    (RangeReturned /\ fArgs.duration > 0 /\ fArgs.start <= fArgs.end) =>
        LET data == fRet.value
            at(i) == fArgs.start + i * fArgs.duration
        IN /\ Len(data) = FullWindows + 1
           /\ \A i \in 1..FullWindows :
                 data[i] = <<FormatYmd(at(i - 1)), FormatYmd(at(i))>>
           /\ data[FullWindows + 1] = <<FormatYmd(at(FullWindows)), FormatYmd(fArgs.end)>>
           /\ \A i \in 2..Len(data) : data[i][1] = data[i - 1][2]

\* A range of exactly three durations: four windows, the last one from end
\* to end.
C17_Witness ==
    /\ RangeReturned
    /\ fArgs.end = fArgs.start + 3 * fArgs.duration
    /\ Len(fRet.value) = 4
    /\ fRet.value[4][1] = fRet.value[4][2]

\* The string holds "${", then at least one character, then '}'.
HasPlaceholder(s) ==
    \E i, j \in 1..Len(s) : i + 2 < j /\ s[i] = "$" /\ s[i + 1] = "{" /\ s[j] = "}"

\* The string is "${" inside "}" with a non-empty inside that holds no '}'.
IsPlaceholder(s) ==
    /\ Len(s) > 3
    /\ SubSeq(s, 1, 2) = <<"$", "{">>
    /\ \A i \in 1..Len(s) : s[i] = "}" <=> i = Len(s)

\* C18: parse_variable splits the inside of a placeholder once on ':':
\* "${i:col}" with i an integer gives (i, col), "${col}" gives (0, col), an
\* inside whose left part is not an integer is the column name as a whole,
\* and a string with no "${" followed by a later '}' around non-empty
\* content gives None.
C18_ParseVariable ==
    (fRet.called /\ fArgs.fn = "parse_variable") =>
        LET s == fArgs.s
            inside == SubSeq(s, 3, Len(s) - 1)
            fields == splitn2(inside, ":")
        IN /\ ~HasPlaceholder(s) => fRet.value = None
           /\ IsPlaceholder(s) =>
                IF Len(fields) = 1 THEN fRet.value = Some(0, inside)
                ELSE IF IsUsize(fields[1])
                THEN fRet.value = Some(ParseUsize(fields[1]), fields[2])
                ELSE fRet.value.some /\ fRet.value.column = inside

\* The element is a placeholder whose ColumnMap index is out of range or
\* whose column is absent from that ColumnMap.
Unresolved(item, cms) ==
    LET var == parse_variable(as_str(item))
    IN var.some /\ ~(var.index < Len(cms) /\ var.column \in DOMAIN cms[var.index + 1])

\* A sequence with its resolving placeholders replaced by their columns and
\* every other element kept.
UnresolvedKept(val, cms) ==
    Flatten([i \in 1..Len(val.items) |->
                IF Unresolved(val.items[i], cms) THEN <<val.items[i]>>
                ELSE Resolved(val.items[i], cms)])

\* C19: in labels and in each datasets[i].data, a placeholder that fails to
\* resolve is still present, unmodified and at its position, in the
\* resulting sequence, and the elements that are no placeholders are kept
\* in order.
C19_UnresolvedRemain ==
    /\ (fRet.called /\ fArgs.fn = "handle_labels_field" /\ fArgs.val.t = "seq") =>
            fRet.value.items = UnresolvedKept(fArgs.val, fArgs.cms)
    /\ (fRet.called /\ fArgs.fn = "handle_datasets_field") =>
            \A i \in 1..Len(fArgs.val) :
                fArgs.val[i].data.t = "seq" =>
                    fRet.value[i].data.items = UnresolvedKept(fArgs.val[i].data, fArgs.cms)

\* The strings of a field: the field itself or the strings among its
\* elements.
StringsOf(val) ==
    IF val.t = "str" THEN {val}
    ELSE {val.items[i] : i \in {j \in 1..Len(val.items) : val.items[j].t = "str"}}

\* Every placeholder of the data section names a column of its ColumnMap,
\* and every placeholder of backgroundColor a palette or random.
AllResolve ==
    /\ \A v \in StringsOf(fArgs.labels) : ~Unresolved(v, fArgs.cms)
    /\ \A i \in 1..Len(fArgs.datasets) :
        /\ \A v \in StringsOf(fArgs.datasets[i].data) : ~Unresolved(v, fArgs.cms)
        /\ LET var == parse_variable(as_str(fArgs.datasets[i].backgroundColor))
           IN var.some =>
                var.column \in DOMAIN Colors \cup {<<"r", "a", "n", "d", "o", "m">>}

\* C20: when every placeholder resolves, no string of the rendered data
\* section holds a placeholder; labels "${foo}" and data "${foo}" become the
\* column a, b, c and backgroundColor "${random}" a non-empty sequence.
C20_NoPlaceholderLeft ==
    (fRet.called /\ fArgs.fn = "hanlde_data_section" /\ AllResolve) =>
        /\ \A v \in StringsOf(fRet.value.labels) : ~HasPlaceholder(v.s)
        /\ \A i \in 1..Len(fRet.value.datasets) :
            /\ \A v \in StringsOf(fRet.value.datasets[i].data) : ~HasPlaceholder(v.s)
            /\ \A v \in StringsOf(fRet.value.datasets[i].backgroundColor) :
                    ~HasPlaceholder(v.s)
        /\ (/\ fArgs.labels = Str(Var(ColumnF))
            /\ fArgs.datasets[1].data = Str(Var(ColumnF))
            /\ fArgs.datasets[1].backgroundColor = Str(Var(<<"r", "a", "n", "d", "o", "m">>)))
           => /\ fRet.value.labels = Sequence(Cms[1][ColumnF])
              /\ fRet.value.datasets[1].data = Sequence(Cms[1][ColumnF])
              /\ fRet.value.datasets[1].backgroundColor.t = "seq"
              /\ fRet.value.datasets[1].backgroundColor.items # <<>>

(***************************************************************************)
(* Further claims.                                                         *)
(***************************************************************************)
\* calc_longest has run on a non-empty slice of non-negative timestamps.
StreakOfNonNegative == StreakDone /\ sData # <<>> /\ \A i \in 1..Len(sData) : sData[i] >= 0

\* C28: for non-empty ascending data of non-negative timestamps and a ratio
\* of at least 1, calc_longest returns (c, s, e) with c >= 1, s and e
\* elements of data, s <= e and e/ratio - s/ratio = c - 1: the end points
\* span exactly the reported number of days.
C28_TripleConsistent ==
    (StreakOfNonNegative /\ sRatio >= 1) =>
        LET c == sRet[1]
            s == sRet[2]
            e == sRet[3]
        IN /\ c >= 1
           /\ \E i, j \in 1..Len(sData) : sData[i] = s /\ sData[j] = e
           /\ s <= e
           /\ TruncDiv(e, sRatio) - TruncDiv(s, sRatio) = c - 1

\* calc_longest has run with ratio 2 on a slice with a gap, and returned a
\* run of several days that starts in the middle of a day and ends before
\* the last timestamp.
C28_Witness ==
    /\ StreakOfNonNegative
    /\ sRatio = 2
    /\ sRet[1] >= 2
    /\ sRet[2] % 2 = 1
    /\ sData[Len(sData)] > sRet[3]

\* The triple of calc_longest over everything the final accumulator
\* received, its data being exactly what it received.
ReceivedTriple == calc_longest(sort_unstable(aData[Final]), DAY)

\* C29: after any sequence of update_batch and merge_batch calls on one
\* streak accumulator, evaluate() returns the projection of calc_longest
\* over all the timestamps it has received, by update or by merge.
C29_EvaluateCoversReceived ==
    aOut # NoValue =>
        /\ SeqToBag(aData[Final]) = aSeen[Final]
        /\ aOut = evaluate(aVariant, aIndex, ReceivedTriple[aIndex + 1])

\* C30: for a header line followed by zero or more lines, parse_commit
\* returns Ok or an Invalid-format error and never panics, whatever the
\* extensions of the numstat paths.
C30_ParserTotal ==
    (fRet.called /\ fArgs.fn = "parse_commit") => fRet # Panic

\* C24: a CSV writer flushes exactly when its count of records since the
\* previous flush reaches FLUSH_SIZE and then restarts the count: after any
\* completed write 0 <= curr < FLUSH_SIZE and the records not yet flushed
\* are the curr last ones, for CsvWriter of record.rs and for the writer
\* loop of record_csv.rs.
C24_FlushCadence ==
    \A f \in Files :
        /\ 0 <= wtr[f].curr
        /\ wtr[f].curr < FLUSH_SIZE
        /\ BagCardinality(wtr[f].buf) = wtr[f].curr

\* The repos whose task has taken the counter step, and the indices logged.
Completed == {r \in RepoIds : repoT[r].pc = "ok"}

LoggedIndices == {repoT[r].n : r \in Completed}

RangeData(r) ==
    LET history == Repos[r].git.history
    IN calc_range(DURATION, Timestamp(history[1].header.datetime),
                  Timestamp(history[Len(history)].header.datetime))

Degenerate(data) == Len(data) = 1 /\ data[1][1] = data[1][2]

\* C26: range_commits returns the single sentinel window ("", "") exactly
\* when calc_range produced one window whose two dates coincide, and commits()
\* then runs one git log without --since and --before; in every other case
\* the windows of calc_range are returned unchanged and each is queried with
\* its own bounds.
C26_DegeneratePartition ==
    \A r \in RepoIds :
        cWin[r] # <<>> =>
            LET data == RangeData(r) IN
            /\ (cWin[r] = << <<"", "">> >>) <=> Degenerate(data)
            /\ ~Degenerate(data) => cWin[r] = data
            /\ Len(cPc[r]) = Len(cWin[r])
            /\ \A w \in 1..Len(cWin[r]) :
                  CommitsLogArgs(cWin[r][w]) =
                      IF Degenerate(data) THEN <<"HEAD">>
                      ELSE <<"--since=", data[w][1], "--before=", data[w][2], "HEAD">>

\* Several commits of one day: the one unbounded git log has run and every
\* commit of the history was inserted.
C26_Witness ==
    \E r \in RepoIds :
        /\ Len(Repos[r].git.history) > 1
        /\ cWin[r] = << <<"", "">> >>
        /\ cPc[r] = <<"done">>
        /\ Cardinality(cSet[r]) = Len(Repos[r].git.history)

\* One window with two dates is kept with its bounds.
C26_WitnessBounded ==
    \E r \in RepoIds :
        /\ Len(cWin[r]) = 1
        /\ cWin[r][1][1] # cWin[r][1][2]
        /\ cPc[r] = <<"done">>

\* The repos whose commits go through serialize_commits_sectional, and how
\* many of their hashes the dispatcher has sent.
Sectional(r) ==
    /\ Len(commits_hash(GitOf(r))) > SectionalOver
    /\ sub[<<r, "commits">>].pc \in {"dispatch", "joinw", "ok"}

Dispatched(r) ==
    IF sub[<<r, "commits">>].pc = "dispatch" THEN sub[<<r, "commits">>].i
    ELSE Len(commits_hash(GitOf(r)))

NoWorkerFailed(r) == \A i \in Workers : sub[<<r, i>>].pc # "err"

\* How often hash h waits in the channel of worker i, and how often a worker
\* has fetched it and handed its commit to send_commit_records.
Queued(r, i, h) == Cardinality({k \in 1..Len(wq[<<r, i>>]) : wq[<<r, i>>][k] = h})

Processed(r, h) ==
    LET of == {c \in BagToSet(handed) : c.hash = h /\ c.repo = RepoOf(r).name}
    IN IF of = {} THEN 0
       ELSE IF Cardinality(of) = 1 /\ \A c \in of : CopiesIn(c, handed) = 1 THEN 1
       ELSE 2

SectionalDone(r) ==
    /\ sub[<<r, "commits">>].pc = "ok"
    /\ \A i \in Workers : sub[<<r, i>>].pc = "ok" /\ wq[<<r, i>>] = <<>>
    /\ \A k \in 1..Len(commits_hash(GitOf(r))) : Processed(r, commits_hash(GitOf(r))[k]) = 1

\* While no git call has failed: the hash at index idx is, once dispatched,
\* either waiting in the channel of worker idx mod NumCpus or processed, once
\* in all; no worker sees its channel closed before the last hash is sent;
\* and the function returns only with every worker joined and every hash
\* processed once.
ShardingInvariant ==
    \A r \in RepoIds :
        (Sectional(r) /\ NoWorkerFailed(r)) =>
            LET hashs == commits_hash(GitOf(r)) IN
            /\ \A idx \in 0..(Len(hashs) - 1) :
                 LET h == hashs[idx + 1] IN
                 /\ \A i \in Workers : i # Worker(idx % NumCpus) => Queued(r, i, h) = 0
                 /\ Queued(r, Worker(idx % NumCpus), h) + Processed(r, h)
                        = IF idx < Dispatched(r) THEN 1 ELSE 0
            /\ \A i \in Workers :
                 sub[<<r, i>>].pc = "ok" => Dispatched(r) = Len(hashs)
            /\ sub[<<r, "commits">>].pc = "ok" => SectionalDone(r)

SectionalStarted == \E r \in RepoIds : Sectional(r)

SectionalSettled ==
    \A r \in RepoIds : Sectional(r) => (~NoWorkerFailed(r) \/ SectionalDone(r))

\* C27: serialize_commits_sectional delivers the hash at index idx to worker
\* idx mod N alone, closes the channels after the last hash, and, when no git
\* call fails, every hash is processed exactly once and the function ends
\* with all N workers joined, in every interleaving.
C27_HashSharding ==
    /\ []ShardingInvariant
    /\ SectionalStarted ~> (exited \/ SectionalSettled)

\* Both workers have processed their share and are joined.
C27_Witness ==
    \E r \in RepoIds :
        /\ Sectional(r)
        /\ SectionalDone(r)
        /\ Len(commits_hash(GitOf(r))) > NumCpus

\* C21: for every chart config whose data section is not a mapping,
\* render_chart fails with the Mismatched data-section error and writes no
\* file, whatever the number of statements of the query.
C21_MismatchedData ==
    (fRet.called /\ fArgs.fn = "render_chart" /\ fArgs.data.t # "map") => fRet = Mismatched

\* The same for a query with at least one statement.
C21_MismatchedWithResults ==
    (fRet.called /\ fArgs.fn = "render_chart" /\ fArgs.data.t # "map"
        /\ fArgs.statements > 0) => fRet = Mismatched

IsPanic(ret) == ret.called /\ ~ret.ok /\ ret.value = <<"panic">>

\* C22: every registered scalar function is immutable: evaluated on the same
\* argument value at any two moments it yields the same result, duration
\* included.
C22_Immutable ==
    (fRet.called /\ fArgs.fn = "udf") =>
        IF fRet.ok THEN fRet.value[1] = fRet.value[2]
        ELSE LET x == IF fArgs.name \in OfTimestamp THEN fArgs.x.ts ELSE fArgs.x.str
             IN udf(fArgs.variant, fArgs.name, x, fArgs.first)
                    = udf(fArgs.variant, fArgs.name, x, fArgs.second)

\* The same with duration left out.
C22_ImmutableButDuration ==
    (fRet.called /\ fArgs.fn = "udf" /\ fArgs.name # "duration" /\ fRet.ok)
        => fRet.value[1] = fRet.value[2]

\* C23: for a datetime string that does not parse, every time function,
\* scalar or streak aggregate, yields null or an execution error for the row
\* and never panics.
C23_MalformedNeverPanics ==
    (/\ fRet.called
     /\ \/ fArgs.fn = "update" /\ fArgs.v = EmptyString
        \/ fArgs.fn = "udf" /\ fArgs.name \notin OfTimestamp /\ fArgs.x.str = EmptyString)
        => ~IsPanic(fRet)

\* The same for the scalar functions of executor.rs alone: null in every row.
C23_ExecutorScalarsNull ==
    (fRet.called /\ fArgs.fn = "udf" /\ fArgs.variant = "executor"
        /\ fArgs.name \notin OfTimestamp /\ fArgs.x.str = EmptyString)
        => fRet = Ok(<<Null, Null>>)

====
